---- MODULE Spec2Model ----
(***************************************************************************)
(* Reverse-mode automatic differentiation of src/pass/autodiff.cc:         *)
(* Differentiate (reverse dependency collection, memoized compute_adjoint),*)
(* DiffBuildingBlock and generalized_matmul, as far as shapes, dtypes and  *)
(* the identity of the tensors they create are concerned; and the scalar   *)
(* differentiator JacobianMutator and the tensor Jacobian, on expression   *)
(* trees of bounded depth.                                                 *)
(***************************************************************************)
EXTENDS Integers, Sequences, FiniteSets, TLC

\* ------------------------------------------------------------------ bounds
\* Number of tensors of the graph handed to Differentiate (tensor 1 is output).
NumTensors == 4
\* Largest number of sub-tensors Subtensors() reports for one body.
MaxBody == 2
\* Largest length of the inputs array.
MaxInputs == 2
\* Largest rank of an operand of generalized_matmul when it is applied alone.
MaxRank == 2
\* Largest number of nested operators of an expression that is differentiated.
MaxDepth == 2

VARIABLES
  \* --- the arguments of one Differentiate call (never changed by it)
  subtensors,    \* tensor -> Subtensors(op->body[value_index]); <<>> for a placeholder
  is_compute,    \* tensor -> tensor->op.as<ComputeOpNode>() != nullptr
  shape,         \* tensor -> tensor->shape
  inputs,        \* the inputs array
  head_or_null,  \* the head argument (NullTensor when absent)
  \* --- the locals of Differentiate
  pc,            \* position of the call
  head,
  stack,
  reverse_dependencies,
  summands,
  adjoints,
  result,
  \* --- the activation records of compute_adjoint and its callers
  frames,        \* call stack of compute_adjoint, innermost last
  ret,           \* value just returned by a compute_adjoint call, or NullTensor
  iterated,      \* keys of reverse_dependencies already taken by the range-for
  next_input,    \* position of the loop over inputs
  returned,      \* the DifferentiationResult handed to the caller (<<>>: none yet)
  next_id,       \* next fresh object identity (make_node)
  \* --- trace of the call
  pushed,        \* tensors in the order they were pushed on stack
  visited,       \* tensors in the order they were popped and scanned
  fdiff_calls,   \* the fdiff invocations made so far, in order
  raised,        \* an exception was thrown inside the call
  \* --- a lone application of generalized_matmul
  gm_A, gm_B, gm_k, gm_out,
  \* --- a lone application of the scalar differentiator
  ir_checks,     \* the IR node constructors check the types of their operands
  d_expr,        \* the expression differentiated
  d_wrt,         \* with respect to what
  d_out,         \* the derivative (an Error node when the call threw)
  \* --- a lone application of the tensor Jacobian
  j_output, j_input, j_optimize, j_out

args    == <<subtensors, is_compute, shape, inputs, head_or_null>>
locals  == <<pc, head, stack, reverse_dependencies, summands, adjoints, result>>
control == <<frames, ret, iterated, next_input, returned, next_id>>
trace   == <<pushed, visited, fdiff_calls, raised>>
gmvars  == <<gm_A, gm_B, gm_k, gm_out>>
dvars   == <<d_expr, d_wrt, d_out>>
jvars   == <<j_output, j_input, j_optimize, j_out>>
vars    == <<args, locals, control, trace, gmvars, ir_checks, dvars, jvars>>

\* ------------------------------------------------------------------ tensors
Tensors == 1..NumTensors
output  == 1

Dims == {2, 3}

\* A tensor created during the call. id is the identity of the node (0 for a
\* tensor that is not an object of the call: a caller's head, an intermediate
\* of a building block); consumer/producer name graph tensors (0: none);
\* axes are the extents of the reduction axes of the body; passes are the
\* external tensor transformations applied to it, in order, and inlined the
\* names of the tensors InlineNonReductions was restricted to; value_index,
\* axis and body are the tensor's output index and its operation's axes and
\* bodies, where the model follows them.
MkTensor(op, shp, dt, c, p, opnds, axes, name) ==
  [id |-> 0, op |-> op, shape |-> shp, dtype |-> dt, consumer |-> c,
   producer |-> p, operands |-> opnds, axes |-> axes, name |-> name,
   passes |-> <<>>, inlined |-> {}, value_index |-> 0, axis |-> <<>>,
   body |-> <<>>]

NullTensor  == MkTensor("null", <<>>, "", 0, 0, <<>>, <<>>, <<>>)
ErrorTensor == MkTensor("error", <<>>, "", 0, 0, <<>>, <<>>, <<>>)

IsNull(t)  == t.op = "null"
IsError(t) == t.op = "error"

WithId(t, id) == [t EXCEPT !.id = id]

\* dtype of a graph tensor. Every op with a body shares output's dtype; a
\* placeholder other than output is declared with another float width.
DType(t) == IF t = output \/ is_compute[t] THEN "float32" ELSE "float16"

Rank(t) == Len(shape[t])

Prefix(s, n) == SubSeq(s, 1, n)
Drop(s, n)   == SubSeq(s, n + 1, Len(s))
Range(s)     == {s[i] : i \in 1..Len(s)}

\* ------------------------------------------------------------------ expressions
\* An IR expression node. type is the node's numeric type ("handle" for a
\* string); name is a variable's or a call's name; id tells apart variable
\* objects that share a name (copy_with_suffix); func and value_index are a
\* Halide call's producer operation and output index; combiner, axis and
\* condition are those of a Reduce (whose args are its sources); passes are
\* the external rewrites applied to the node.
Node(kind, type, operands) ==
  [kind |-> kind, type |-> type, args |-> operands, name |-> "", id |-> 0,
   value |-> 0, call_type |-> "", func |-> 0, value_index |-> 0,
   combiner |-> <<>>, axis |-> <<>>, condition |-> <<>>, passes |-> <<>>]

\* The exception thrown instead of an expression, with its message.
ErrorExpr(msg) == [Node("Error", "", <<>>) EXCEPT !.name = msg]
IsErr(e) == e.kind = "Error"

\* The first exception among the results of a sequence of evaluations.
HasErr(es) == \E i \in DOMAIN es : IsErr(es[i])
FirstErr(es) == es[CHOOSE i \in DOMAIN es : IsErr(es[i]) /\ \A j \in 1..(i - 1) : ~IsErr(es[j])]

is_float(t) == t \in {"float32", "float64"}
is_int(t)   == t = "int32"
is_bool(t)  == t = "bool"

Variable(type, name) == [Node("Variable", type, <<>>) EXCEPT !.name = name]
SameVar(a, b) == a.name = b.name /\ a.id = b.id

\* Var::copy_with_suffix: a new variable object named name + suffix
copy_with_suffix(v, suffix) == [v EXCEPT !.name = @ \o suffix, !.id = @ + 1]

\* IntImm::make, UIntImm::make, FloatImm::make
Imm(kind, type, value) == [Node(kind, type, <<>>) EXCEPT !.value = value]

FloatImm_make(type, value) ==
  IF ir_checks /\ ~is_float(type) THEN ErrorExpr("FloatImm must be a scalar Float")
  ELSE Imm("FloatImm", type, value)

\* make_const(type, value) and make_zero(type) on expressions
make_const(type, value) ==
  IF is_float(type) THEN Imm("FloatImm", type, value)
  ELSE IF is_int(type) THEN Imm("IntImm", type, value)
  ELSE Imm("UIntImm", type, value)

MakeZero(type) == make_const(type, 0)

\* Add::make, Sub::make, Mul::make, Div::make, Min::make, Max::make, Mod::make
Binary_make(kind, a, b) ==
  IF IsErr(a) THEN a
  ELSE IF IsErr(b) THEN b
  ELSE IF ir_checks /\ a.type # b.type THEN ErrorExpr("BinaryOp of mismatched types")
  ELSE Node(kind, a.type, <<a, b>>)

\* EQ::make, NE::make, LT::make, LE::make, GT::make, GE::make
Cmp_make(kind, a, b) ==
  IF IsErr(a) THEN a
  ELSE IF IsErr(b) THEN b
  ELSE IF ir_checks /\ a.type # b.type THEN ErrorExpr("BinaryOp of mismatched types")
  ELSE Node(kind, "bool", <<a, b>>)

\* And::make, Or::make
Logic_make(kind, a, b) ==
  IF IsErr(a) THEN a
  ELSE IF IsErr(b) THEN b
  ELSE IF ir_checks /\ ~(is_bool(a.type) /\ is_bool(b.type))
       THEN ErrorExpr("lhs and rhs must be bool")
  ELSE Node(kind, "bool", <<a, b>>)

Not_make(a) == IF IsErr(a) THEN a ELSE Node("Not", "bool", <<a>>)

\* Select::make(condition, true_value, false_value)
Select_make(c, t, f) ==
  IF IsErr(c) THEN c
  ELSE IF IsErr(t) THEN t
  ELSE IF IsErr(f) THEN f
  ELSE IF ir_checks /\ (~is_bool(c.type) \/ t.type # f.type)
       THEN ErrorExpr("Select of mismatched types")
  ELSE Node("Select", t.type, <<c, t, f>>)

\* Cast::make(type, value)
Cast_make(type, v) == IF IsErr(v) THEN v ELSE Node("Cast", type, <<v>>)

\* Call::make(type, name, args, call_type, func, value_index)
Call_make(type, name, a, call_type, func, value_index) ==
  [Node("Call", type, a) EXCEPT !.name = name, !.call_type = call_type,
                                !.func = func, !.value_index = value_index]

\* CommReducerNode::make(lhs, rhs, result, identity_element)
CommReducerNode_make(lhs, rhs, res, identity_element) ==
  [lhs |-> lhs, rhs |-> rhs, result |-> res, identity_element |-> identity_element]

\* IterVarNode::make(dom, var): an axis ranging over [0, dom)
IterVarNode_make(dom, var) == [var |-> var, dom |-> dom]

\* Reduce::make(combiner, source, axis, condition, value_index); its type is
\* that of the selected source.
Reduce_make(comb, source, axis, condition, value_index) ==
  LET parts == comb.result \o comb.identity_element \o source \o <<condition>>
  IN  IF HasErr(parts) THEN FirstErr(parts)
      ELSE [Node("Reduce", source[value_index + 1].type, source) EXCEPT
              !.combiner = <<comb>>, !.axis = axis, !.condition = <<condition>>,
              !.value_index = value_index]

\* Substitute(expr, vmap): every variable that is a key of vmap (a sequence
\* of <<variable, replacement>>) replaced, in the sources and the condition
\* of a Reduce as well.
RECURSIVE Substitute(_, _)
Substitute(e, vmap) ==
  IF e.kind = "Variable"
  THEN IF \E i \in DOMAIN vmap : SameVar(vmap[i][1], e)
       THEN vmap[CHOOSE i \in DOMAIN vmap : SameVar(vmap[i][1], e)][2]
       ELSE e
  ELSE [e EXCEPT !.args = [i \in DOMAIN e.args |-> Substitute(e.args[i], vmap)],
                 !.condition = [i \in DOMAIN e.condition |->
                                  Substitute(e.condition[i], vmap)]]

\* An external rewrite (Simplify, SimplifyCombiner) returns an expression of
\* the same kind, type and structure; the node records the rewrite.
Rewritten(e, pass) == IF IsErr(e) THEN e ELSE [e EXCEPT !.passes = Append(@, pass)]

Simplify(e) == Rewritten(e, "Simplify")
SimplifyCombiner(e) == Rewritten(e, "SimplifyCombiner")

\* CloneReduction(expr): the Reduce with fresh copies of its reduction axes
\* substituted in its sources and its condition.
CloneReduction(e) ==
  LET new_axis == [i \in DOMAIN e.axis |->
                     IterVarNode_make(e.axis[i].dom, copy_with_suffix(e.axis[i].var, ""))]
      vmap == [i \in DOMAIN e.axis |-> <<e.axis[i].var, new_axis[i].var>>]
  IN  [e EXCEPT !.axis = new_axis,
                !.args = [i \in DOMAIN e.args |-> Substitute(e.args[i], vmap)],
                !.condition = [i \in DOMAIN e.condition |->
                                 Substitute(e.condition[i], vmap)]]

\* ------------------------------------------------------------------ JacobianMutator
\* What an expression is differentiated with respect to: the element
\* input(indices) of a tensor, or a variable (lines 46-62).
WrtTensor(input, indices) == [input |-> <<input>>, indices |-> indices, input_var |-> <<>>]
WrtVar(var) == [input |-> <<>>, indices |-> <<>>, input_var |-> <<var>>]

NOT_IMPLEMENTED == ErrorExpr("Derivative of this op is not implemented")

\* acc + ts[1] + ts[2] + ..., nested to the left
RECURSIVE AddAll(_, _)
AddAll(acc, ts) ==
  IF ts = <<>> THEN acc ELSE AddAll(Binary_make("Add", acc, Head(ts)), Tail(ts))

\* The condition of the tensor-access rule: true && indices[0] == args[0] && ...
RECURSIVE AndAll(_, _)
AndAll(acc, ts) ==
  IF ts = <<>> THEN acc ELSE AndAll(Logic_make("And", acc, Head(ts)), Tail(ts))

\* Lines 63-68
MutateVariable(op, w) ==
  IF w.input_var # <<>> /\ SameVar(w.input_var[1], op)
  THEN FloatImm_make(op.type, 1)
  ELSE MakeZero(op.type)

\* The tensor-access rule ignoring the output index of the call.
MutateHalideCall_anyOutput(op, w) ==
  IF w.input # <<>> /\ op.func = w.input[1].id
  THEN LET condition ==
             AndAll(Imm("UIntImm", "bool", 1),
                    [i \in 1..Len(w.input[1].shape) |->
                       Cmp_make("EQ", w.indices[i], op.args[i])])
       IN  Cast_make(op.type, condition)
  ELSE MakeZero(op.type)

\* Lines 74-85: a Halide call, that is an access to a tensor element
MutateHalideCall(op, w) ==
  IF w.input # <<>> /\ op.func = w.input[1].id /\ op.value_index = w.input[1].value_index
  THEN LET condition ==
             AndAll(Imm("UIntImm", "bool", 1),
                    [i \in 1..Len(w.input[1].shape) |->
                       Cmp_make("EQ", w.indices[i], op.args[i])])
       IN  Cast_make(op.type, condition)
  ELSE MakeZero(op.type)

\* The node kinds whose rule is NOT_IMPLEMENTED (lines 70-71, 127, 137-144,
\* 218, 224-225, 231-232).
UnsupportedKinds ==
  {"Load", "Let", "Mod", "EQ", "NE", "LT", "LE", "GT", "GE", "And", "Or", "Not",
   "Ramp", "Broadcast", "StringImm", "Shuffle"}

\* The rule of an unsupported node giving a zero instead of throwing.
MutateUnsupported_zero(op) == MakeZero(op.type)

MutateUnsupported(op) == NOT_IMPLEMENTED

RECURSIVE Mutate(_, _)
\* The cast rule returning the derivative of the operand without the cast.
MutateCast_dropsCast(op, w) ==
  IF is_float(op.type) THEN Mutate(op.args[1], w) ELSE MakeZero(op.type)

\* Lines 211-216
MutateCast(op, w) ==
  IF is_float(op.type) THEN Cast_make(op.type, Mutate(op.args[1], w))
  ELSE MakeZero(op.type)

\* The Select rule differentiating the condition as well.
MutateSelect_throughCondition(op, w) ==
  Select_make(Mutate(op.args[1], w), Mutate(op.args[2], w), Mutate(op.args[3], w))

\* Lines 220-222
MutateSelect(op, w) ==
  Select_make(op.args[1], Mutate(op.args[2], w), Mutate(op.args[3], w))

\* The Reduce rule putting the original components before the derivatives.
MutateReduce_derivativesLast(e, w) ==
  LET op == CloneReduction(e)
      c  == op.combiner[1]
      Derivative_(expr, var) == Mutate(expr, WrtVar(var))
      new_lhs == c.lhs \o [i \in DOMAIN c.lhs |-> copy_with_suffix(c.lhs[i], ".der")]
      new_rhs == c.rhs \o [i \in DOMAIN c.rhs |-> copy_with_suffix(c.rhs[i], ".der")]
      k == Len(c.lhs)
      new_res(res) ==
        AddAll(MakeZero(res.type),
               [i \in DOMAIN c.lhs |->
                  Binary_make("Mul", new_lhs[k + i], Derivative_(res, c.lhs[i]))]
               \o [i \in DOMAIN c.rhs |->
                  Binary_make("Mul", new_rhs[k + i], Derivative_(res, c.rhs[i]))])
      new_result == c.result \o [i \in DOMAIN c.result |-> new_res(c.result[i])]
      new_identity == c.identity_element \o [i \in DOMAIN c.identity_element |->
                                                Mutate(c.identity_element[i], w)]
      new_source == op.args \o [i \in DOMAIN op.args |-> Mutate(op.args[i], w)]
      new_combiner == CommReducerNode_make(new_lhs, new_rhs, new_result, new_identity)
  IN  SimplifyCombiner(
        Reduce_make(new_combiner, new_source, op.axis, op.condition[1], op.value_index))

\* The Reduce rule differentiating the combiner's results with respect to
\* the input of the whole differentiation.
MutateReduce_innerWrtInput(e, w) ==
  LET op == CloneReduction(e)
      c  == op.combiner[1]
      new_lhs == [i \in DOMAIN c.lhs |-> copy_with_suffix(c.lhs[i], ".der")] \o c.lhs
      new_rhs == [i \in DOMAIN c.rhs |-> copy_with_suffix(c.rhs[i], ".der")] \o c.rhs
      new_res(res) ==
        AddAll(MakeZero(res.type),
               [i \in DOMAIN c.lhs |->
                  Binary_make("Mul", new_lhs[i],
                              IF w.input = <<>> THEN Mutate(res, WrtVar(c.lhs[i]))
                              ELSE Mutate(res, w))]
               \o [i \in DOMAIN c.rhs |->
                  Binary_make("Mul", new_rhs[i],
                              IF w.input = <<>> THEN Mutate(res, WrtVar(c.rhs[i]))
                              ELSE Mutate(res, w))])
      new_result == [i \in DOMAIN c.result |-> new_res(c.result[i])] \o c.result
      new_identity == [i \in DOMAIN c.identity_element |->
                         Mutate(c.identity_element[i], w)] \o c.identity_element
      new_source == [i \in DOMAIN op.args |-> Mutate(op.args[i], w)] \o op.args
      new_combiner == CommReducerNode_make(new_lhs, new_rhs, new_result, new_identity)
  IN  SimplifyCombiner(
        Reduce_make(new_combiner, new_source, op.axis, op.condition[1], op.value_index))

\* Lines 146-209: the derivative of a Reduce
MutateReduce(e, w) ==
  LET op == CloneReduction(e)
      c  == op.combiner[1]
      Derivative_(expr, var) == Mutate(expr, WrtVar(var))
      new_lhs == [i \in DOMAIN c.lhs |-> copy_with_suffix(c.lhs[i], ".der")] \o c.lhs
      new_rhs == [i \in DOMAIN c.rhs |-> copy_with_suffix(c.rhs[i], ".der")] \o c.rhs
      new_res(res) ==
        AddAll(MakeZero(res.type),
               [i \in DOMAIN c.lhs |->
                  Binary_make("Mul", new_lhs[i], Derivative_(res, c.lhs[i]))]
               \o [i \in DOMAIN c.rhs |->
                  Binary_make("Mul", new_rhs[i], Derivative_(res, c.rhs[i]))])
      new_result == [i \in DOMAIN c.result |-> new_res(c.result[i])] \o c.result
      new_identity == [i \in DOMAIN c.identity_element |->
                         Mutate(c.identity_element[i], w)] \o c.identity_element
      new_source == [i \in DOMAIN op.args |-> Mutate(op.args[i], w)] \o op.args
      new_combiner == CommReducerNode_make(new_lhs, new_rhs, new_result, new_identity)
  IN  SimplifyCombiner(
        Reduce_make(new_combiner, new_source, op.axis, op.condition[1], op.value_index))

\* Lines 63-232: JacobianMutator(w).Mutate(e)
Mutate(e, w) ==
  LET D(x) == Mutate(x, w)
      a == e.args
      one == FloatImm_make(e.type, 1)
  IN  CASE e.kind = "Variable" -> MutateVariable(e, w)
        [] e.kind = "Call" /\ e.call_type = "Halide" -> MutateHalideCall(e, w)
        [] e.kind = "Call" /\ e.call_type = "PureIntrinsic" ->
             CASE e.name = "exp" -> Binary_make("Mul", D(a[1]), e)
               [] e.name = "log" -> Binary_make("Div", D(a[1]), a[1])
               [] e.name = "sigmoid" ->
                    Binary_make("Mul", D(a[1]),
                                Binary_make("Mul", e, Binary_make("Sub", one, e)))
               [] e.name = "tanh" ->
                    Binary_make("Mul", D(a[1]),
                                Binary_make("Sub", one, Binary_make("Mul", e, e)))
               [] e.name = "fabs" ->
                    LET type == a[1].type
                    IN  Binary_make("Mul", D(a[1]),
                                    Select_make(Cmp_make("GE", a[1], MakeZero(type)),
                                                FloatImm_make(type, 1),
                                                FloatImm_make(type, -1)))
               [] OTHER -> ErrorExpr("Derivative of this intrinsic is not implemented: "
                                     \o e.name)
        [] e.kind = "Call" -> NOT_IMPLEMENTED
        [] e.kind \in {"Add", "Sub"} -> Binary_make(e.kind, D(a[1]), D(a[2]))
        [] e.kind = "Mul" ->
             Binary_make("Add", Binary_make("Mul", D(a[1]), a[2]),
                                Binary_make("Mul", a[1], D(a[2])))
        [] e.kind = "Div" ->
             Binary_make("Div",
                         Binary_make("Sub", Binary_make("Mul", D(a[1]), a[2]),
                                            Binary_make("Mul", a[1], D(a[2]))),
                         Binary_make("Mul", a[2], a[2]))
        [] e.kind = "Min" -> Select_make(Cmp_make("LE", a[1], a[2]), D(a[1]), D(a[2]))
        [] e.kind = "Max" -> Select_make(Cmp_make("GE", a[1], a[2]), D(a[1]), D(a[2]))
        [] e.kind = "Reduce" -> MutateReduce(e, w)
        [] e.kind = "Cast" -> MutateCast(e, w)
        [] e.kind = "Select" -> MutateSelect(e, w)
        [] e.kind \in {"IntImm", "UIntImm", "FloatImm"} -> Imm(e.kind, e.type, 0)
        [] e.kind \in UnsupportedKinds -> MutateUnsupported(e)

\* Lines 240-242: Jacobian(expr, input, indices)
JacobianExpr(expr, input, indices) == Mutate(expr, WrtTensor(input, indices))

\* Lines 244-246: Derivative(expr, var)
Derivative(expr, var) == Mutate(expr, WrtVar(var))

\* ------------------------------------------------------------------ external passes
\* OptimizeAndLiftNonzeronessConditions, InlineNonReductions and
\* InlineTailCall rewrite bodies; shape, dtype and operands of the tensor
\* they return are those of their argument.
ApplyPass(t, pass) == [t EXCEPT !.passes = Append(@, pass)]

OptimizeAndLiftNonzeronessConditions(t) ==
  ApplyPass(t, "OptimizeAndLiftNonzeronessConditions")
InlineNonReductions(t, only) ==
  [ApplyPass(t, "InlineNonReductions") EXCEPT !.inlined = only]
InlineTailCall(t) == ApplyPass(t, "InlineTailCall")

\* topi::full(shape, dtype, fill_value): every element is fill_value
topi_full(shp, dt, fill_value) ==
  MkTensor("full", shp, dt, 0, 0, <<>>, <<>>, <<"full", fill_value>>)

\* make_zero(dtype)
make_zero(dt) == "0"

\* Broadcast of two shapes, aligned at their last axes (<<0>>: incompatible).
RECURSIVE BroadcastShape(_, _)
BroadcastShape(a, b) ==
  IF a = <<>> THEN b
  ELSE IF b = <<>> THEN a
  ELSE LET x == a[Len(a)]
           y == b[Len(b)]
           rest == BroadcastShape(Prefix(a, Len(a) - 1), Prefix(b, Len(b) - 1))
       IN  IF rest = <<0>> THEN <<0>>
           ELSE IF x = y \/ y = 1 THEN Append(rest, x)
           ELSE IF x = 1 THEN Append(rest, y)
           ELSE <<0>>

\* topi::add(A, B): elementwise (broadcasting) addition
topi_add(a, b) ==
  IF BroadcastShape(a.shape, b.shape) = <<0>> THEN ErrorTensor
  ELSE MkTensor("add", BroadcastShape(a.shape, b.shape), a.dtype, 0, 0,
                <<a, b>>, <<>>, <<"add">>)

\* ------------------------------------------------------------------ generalized_matmul
\* generalized_matmul dropping the first axes of A instead of its last ones.
generalized_matmul_dropsFront(A, B, ndims_to_reduce, name) ==
  IF ~(Len(A.shape) >= ndims_to_reduce) THEN ErrorTensor
  ELSE IF ~(Len(B.shape) >= ndims_to_reduce) THEN ErrorTensor
  ELSE LET output_shape == Drop(A.shape, ndims_to_reduce)
                             \o Drop(B.shape, ndims_to_reduce)
           iter_vars == [i \in 1..ndims_to_reduce |-> B.shape[i]]
       IN  MkTensor(IF iter_vars = <<>> THEN "mul" ELSE "sum_mul",
                    output_shape, A.dtype, 0, 0, <<A, B>>, iter_vars, name)

\* The name of the operation of a tensor, its pieces put together.
RECURSIVE op_name(_)
op_name(pieces) == IF pieces = <<>> THEN "" ELSE Head(pieces) \o op_name(Tail(pieces))

\* Tensor::operator()(indices): the element of T at the indices
TensorCall(T, indices) ==
  Call_make(T.dtype, op_name(T.name), indices, "Halide", T.id, T.value_index)

\* tvm::reduce_axis(Range(0, extent), name)
reduce_axis(extent, name) == IterVarNode_make(extent, Variable("int32", name))

\* tvm::sum(source, rdom): the reduction of source over rdom by addition
tvm_sum(source, rdom) ==
  LET x == Variable(source.type, "x")
      y == Variable(source.type, "y")
      combiner == CommReducerNode_make(<<x>>, <<y>>, <<Node("Add", source.type, <<x, y>>)>>,
                                       <<MakeZero(source.type)>>)
  IN  Reduce_make(combiner, <<source>>, rdom, make_const("bool", 1), 0)

\* The axes tvm::compute makes for a shape: ax0, ax1, ...
compute_axis(shp) ==
  [i \in DOMAIN shp |-> IterVarNode_make(shp[i], Variable("int32", "ax" \o ToString(i - 1)))]

\* The body of generalized_matmul reducing even over no axes at all.
generalized_matmul_body_alwaysSum(A, B, ndims_to_reduce, input_indices, iter_vars) ==
  LET k_vars == [i \in DOMAIN iter_vars |-> iter_vars[i].var]
      A_indices == Prefix(input_indices, Len(A.shape) - ndims_to_reduce) \o k_vars
      B_indices == k_vars \o Drop(input_indices, Len(A.shape) - ndims_to_reduce)
      product == Node("Mul", A.dtype, <<TensorCall(A, A_indices), TensorCall(B, B_indices)>>)
  IN  tvm_sum(product, iter_vars)

\* Lines 353-375: func(input_indices), the body of generalized_matmul
generalized_matmul_body(A, B, ndims_to_reduce, input_indices, iter_vars) ==
  LET k_vars == [i \in DOMAIN iter_vars |-> iter_vars[i].var]
      A_indices == Prefix(input_indices, Len(A.shape) - ndims_to_reduce) \o k_vars
      B_indices == k_vars \o Drop(input_indices, Len(A.shape) - ndims_to_reduce)
      product == Node("Mul", A.dtype, <<TensorCall(A, A_indices), TensorCall(B, B_indices)>>)
  IN  IF iter_vars = <<>> THEN product ELSE tvm_sum(product, iter_vars)

\* Lines 337-378: generalized_matmul(A, B, ndims_to_reduce, name), the
\* compute of func over output_shape; ErrorTensor when a CHECK_GE fails.
\* axes holds the extents of the reduction axes.
generalized_matmul(A, B, ndims_to_reduce, name) ==
  IF ~(Len(A.shape) >= ndims_to_reduce) THEN ErrorTensor
  ELSE IF ~(Len(B.shape) >= ndims_to_reduce) THEN ErrorTensor
  ELSE LET output_shape == Prefix(A.shape, Len(A.shape) - ndims_to_reduce)
                             \o Drop(B.shape, ndims_to_reduce)
           iter_vars == [i \in 1..ndims_to_reduce |->
                           reduce_axis(B.shape[i], "k" \o ToString(i - 1))]
           axis == compute_axis(output_shape)
           input_indices == [i \in DOMAIN axis |-> axis[i].var]
       IN  [MkTensor(IF iter_vars = <<>> THEN "mul" ELSE "sum_mul",
                     output_shape, A.dtype, 0, 0, <<A, B>>,
                     [i \in DOMAIN iter_vars |-> iter_vars[i].dom], name)
              EXCEPT !.axis = axis,
                     !.body = <<generalized_matmul_body(A, B, ndims_to_reduce,
                                                        input_indices, iter_vars)>>]

\* ------------------------------------------------------------------ Jacobian
\* Jacobian(output, input, optimize) of graph tensors out and inp.
Jacobian(out, inp, optimize) ==
  IF is_compute[out]
  THEN LET new_shape == shape[out] \o shape[inp]
           tensor == MkTensor("jacobian", new_shape, DType(out), out, inp,
                              <<>>, <<>>, <<ToString(out), ".jacobian">>)
       IN  IF optimize THEN OptimizeAndLiftNonzeronessConditions(tensor)
           ELSE tensor
  ELSE ErrorTensor

\* ------------------------------------------------------------------ the tensor Jacobian in full
\* A tensor handed to Jacobian: id is the identity of its operation, axis
\* and body those of a ComputeOp (empty for any other operation).
GivenTensor(op, id, value_index, shp, dt, name, axis, body) ==
  [MkTensor(op, shp, dt, 0, 0, <<>>, <<>>, <<name>>) EXCEPT
     !.id = id, !.value_index = value_index, !.axis = axis, !.body = body]

\* The tensor Jacobian appending the input's axes before the output's.
JacobianTensor_inputFirst(out, inp, optimize) ==
  IF out.op = "compute"
  THEN LET cloned == [i \in DOMAIN out.axis |->
                        IterVarNode_make(out.axis[i].dom,
                                         copy_with_suffix(out.axis[i].var, ""))]
           vmap == [i \in DOMAIN out.axis |-> <<out.axis[i].var, cloned[i].var>>]
           input_itervars ==
             [i \in DOMAIN inp.shape |->
                IterVarNode_make(inp.shape[i],
                                 Variable("int32", "jac_i" \o ToString(i - 1)))]
           new_axis == input_itervars \o cloned
           new_body ==
             Simplify(JacobianExpr(Substitute(out.body[out.value_index + 1], vmap), inp,
                                   [i \in DOMAIN input_itervars |-> input_itervars[i].var]))
           value_index == IF new_body.kind = "Reduce" THEN new_body.value_index ELSE 0
           new_bodies ==
             IF new_body.kind = "Reduce"
             THEN [i \in DOMAIN new_body.args |->
                     Reduce_make(new_body.combiner[1], new_body.args, new_body.axis,
                                 new_body.condition[1], i - 1)]
             ELSE <<new_body>>
           new_shape == inp.shape \o out.shape
           tensor == [MkTensor("jacobian", new_shape, out.dtype, 0, 0, <<>>, <<>>,
                               <<out.name[1], ".jacobian">>) EXCEPT
                        !.axis = new_axis, !.body = new_bodies,
                        !.value_index = value_index]
       IN  IF IsErr(new_body) THEN ErrorTensor
           ELSE IF optimize THEN OptimizeAndLiftNonzeronessConditions(tensor)
           ELSE tensor
  ELSE ErrorTensor

\* The tensor Jacobian keeping the derivative of a reduction as its only body.
JacobianTensor_singleBody(out, inp, optimize) ==
  IF out.op = "compute"
  THEN LET cloned == [i \in DOMAIN out.axis |->
                        IterVarNode_make(out.axis[i].dom,
                                         copy_with_suffix(out.axis[i].var, ""))]
           vmap == [i \in DOMAIN out.axis |-> <<out.axis[i].var, cloned[i].var>>]
           input_itervars ==
             [i \in DOMAIN inp.shape |->
                IterVarNode_make(inp.shape[i],
                                 Variable("int32", "jac_i" \o ToString(i - 1)))]
           new_axis == cloned \o input_itervars
           new_body ==
             Simplify(JacobianExpr(Substitute(out.body[out.value_index + 1], vmap), inp,
                                   [i \in DOMAIN input_itervars |-> input_itervars[i].var]))
           value_index == IF new_body.kind = "Reduce" THEN new_body.value_index ELSE 0
           new_bodies ==
             <<new_body>>
           new_shape == out.shape \o inp.shape
           tensor == [MkTensor("jacobian", new_shape, out.dtype, 0, 0, <<>>, <<>>,
                               <<out.name[1], ".jacobian">>) EXCEPT
                        !.axis = new_axis, !.body = new_bodies,
                        !.value_index = value_index]
       IN  IF IsErr(new_body) THEN ErrorTensor
           ELSE IF optimize THEN OptimizeAndLiftNonzeronessConditions(tensor)
           ELSE tensor
  ELSE ErrorTensor

\* Lines 248-319: Jacobian(output, input, optimize) with the axes and the
\* bodies of the operation it creates.
JacobianTensor(out, inp, optimize) ==
  IF out.op = "compute"
  THEN LET cloned == [i \in DOMAIN out.axis |->
                        IterVarNode_make(out.axis[i].dom,
                                         copy_with_suffix(out.axis[i].var, ""))]
           vmap == [i \in DOMAIN out.axis |-> <<out.axis[i].var, cloned[i].var>>]
           input_itervars ==
             [i \in DOMAIN inp.shape |->
                IterVarNode_make(inp.shape[i],
                                 Variable("int32", "jac_i" \o ToString(i - 1)))]
           new_axis == cloned \o input_itervars
           new_body ==
             Simplify(JacobianExpr(Substitute(out.body[out.value_index + 1], vmap), inp,
                                   [i \in DOMAIN input_itervars |-> input_itervars[i].var]))
           value_index == IF new_body.kind = "Reduce" THEN new_body.value_index ELSE 0
           new_bodies ==
             IF new_body.kind = "Reduce"
             THEN [i \in DOMAIN new_body.args |->
                     Reduce_make(new_body.combiner[1], new_body.args, new_body.axis,
                                 new_body.condition[1], i - 1)]
             ELSE <<new_body>>
           new_shape == out.shape \o inp.shape
           tensor == [MkTensor("jacobian", new_shape, out.dtype, 0, 0, <<>>, <<>>,
                               <<out.name[1], ".jacobian">>) EXCEPT
                        !.axis = new_axis, !.body = new_bodies,
                        !.value_index = value_index]
       IN  IF IsErr(new_body) THEN ErrorTensor
           ELSE IF optimize THEN OptimizeAndLiftNonzeronessConditions(tensor)
           ELSE tensor
  ELSE ErrorTensor

\* ------------------------------------------------------------------ DiffBuildingBlock
\* DiffBuildingBlock reducing over as many axes as the input has.
DiffBuildingBlock_rankOfInput(out, inp, head_t) ==
  LET jac_output_input == Jacobian(out, inp, TRUE)
      mm == generalized_matmul(head_t, jac_output_input, Rank(inp),
                               <<ToString(out), ".", ToString(inp), ".grad">>)
  IN  IF IsError(jac_output_input) \/ IsError(mm) THEN ErrorTensor
      ELSE InlineTailCall(
             OptimizeAndLiftNonzeronessConditions(
               InlineNonReductions(mm, {jac_output_input})))

\* DiffBuildingBlock running the optimizing pass before the inliner.
DiffBuildingBlock_optimizeFirst(out, inp, head_t) ==
  LET jac_output_input == Jacobian(out, inp, TRUE)
      mm == generalized_matmul(head_t, jac_output_input, Rank(out),
                               <<ToString(out), ".", ToString(inp), ".grad">>)
  IN  IF IsError(jac_output_input) \/ IsError(mm) THEN ErrorTensor
      ELSE InlineTailCall(
             InlineNonReductions(
               OptimizeAndLiftNonzeronessConditions(mm), {jac_output_input}))

\* Lines 386-404
DiffBuildingBlock(out, inp, head_t) ==
  LET jac_output_input == Jacobian(out, inp, TRUE)
      mm == generalized_matmul(head_t, jac_output_input, Rank(out),
                               <<ToString(out), ".", ToString(inp), ".grad">>)
  IN  IF IsError(jac_output_input) \/ IsError(mm) THEN ErrorTensor
      ELSE InlineTailCall(
             OptimizeAndLiftNonzeronessConditions(
               InlineNonReductions(mm, {jac_output_input})))

\* The head comparing only the first pair of indices.
IdentityHead_firstAxisOnly ==
  LET shp  == shape[output] \o shape[output]
      input_indices ==
        [i \in DOMAIN shp |->
           IterVarNode_make(shp[i], Variable("int32", "ax" \o ToString(i - 1)))]
      n    == Len(shape[output])
      res  == AndAll(make_const("bool", 1),
                     [i \in 1..(IF n = 0 THEN 0 ELSE 1) |->
                        Cmp_make("EQ", input_indices[i].var, input_indices[n + i].var)])
  IN  [MkTensor("identity", shp, DType(output), 0, 0, <<>>, <<>>, <<"identity">>)
         EXCEPT !.axis = input_indices, !.body = <<Cast_make(DType(output), res)>>]

\* Lines 413-425: the identity head built when head_or_null is null, a
\* compute over the axes input_indices.
IdentityHead ==
  LET shp  == shape[output] \o shape[output]
      input_indices ==
        [i \in DOMAIN shp |->
           IterVarNode_make(shp[i], Variable("int32", "ax" \o ToString(i - 1)))]
      n    == Len(shape[output])
      res  == AndAll(make_const("bool", 1),
                     [i \in 1..n |->
                        Cmp_make("EQ", input_indices[i].var, input_indices[n + i].var)])
  IN  [MkTensor("identity", shp, DType(output), 0, 0, <<>>, <<>>, <<"identity">>)
         EXCEPT !.axis = input_indices, !.body = <<Cast_make(DType(output), res)>>]

\* ------------------------------------------------------------------ the call's arguments
\* Sequences over S of length at most n.
SeqsUpTo(S, n) == UNION {[1..k -> S] : k \in 0..n}

\* What Subtensors may report for the body of t: tensors defined before t was
\* (the graph is acyclic; tensors are numbered consumers first), in any
\* order; output's body also with a tensor reported more than once.
Bodies(t) ==
  {b \in SeqsUpTo((t + 1)..NumTensors, MaxBody) :
     t = output \/ Cardinality(Range(b)) = Len(b)}

RECURSIVE GraphsFrom(_)
GraphsFrom(t) ==
  IF t > NumTensors THEN {<<>>}
  ELSE {(t :> b) @@ g : b \in Bodies(t), g \in GraphsFrom(t + 1)}

\* Tensors output transitively reads (output included).
RECURSIVE ReachableFrom(_, _, _)
ReachableFrom(g, t, R) ==
  IF t > NumTensors THEN R
  ELSE ReachableFrom(g, t + 1, IF t \in R THEN R \cup Range(g[t]) ELSE R)

Reachable(g) == ReachableFrom(g, 1, {output})

\* The body of a tensor output does not read is never looked at: it is left empty.
Graphs == {g \in GraphsFrom(1) : \A t \in Tensors \ Reachable(g) : g[t] = <<>>}

\* Shapes of the graph's tensors: ranks 0..MaxRank in rotation, extents in Dims.
ShapeOf(t, s) == [i \in 1..((t + s) % (MaxRank + 1)) |-> 2 + ((t + i) % 2)]
ShapeTables == {[t \in Tensors |-> ShapeOf(t, s)] : s \in 0..MaxRank}

GivenHead(shp) ==
  MkTensor("placeholder", shp, "float32", 0, 0, <<>>, <<>>, <<"head">>)

\* The heads a caller passes for an output of shape os: none, one with a
\* batch axis in front of output's axes, and one whose last axes are not
\* output's. Every head has at least output's rank (line 468 is undefined
\* for a shorter one).
Heads(os) ==
  {NullTensor, GivenHead(<<3>> \o os),
   GivenHead(<<3>> \o [i \in 1..Len(os) |-> os[i] + 1])}

\* The variables of the lone applications while none is made.
NullExpr == Node("null", "", <<>>)

IdleGM == gm_A = <<>> /\ gm_B = <<>> /\ gm_k = 0 /\ gm_out = NullTensor
IdleD  == d_expr = NullExpr /\ d_wrt = WrtVar(NullExpr) /\ d_out = NullExpr
IdleJ  == j_output = NullTensor /\ j_input = NullTensor /\ j_optimize = FALSE
            /\ j_out = NullTensor

Init ==
  /\ subtensors \in Graphs
  /\ is_compute = [t \in Tensors |-> subtensors[t] # <<>>]
  /\ shape \in ShapeTables
  /\ inputs \in SeqsUpTo(Tensors, MaxInputs)
  /\ head_or_null \in Heads(shape[output])
  /\ pc = "start"
  /\ head = NullTensor
  /\ stack = <<>>
  /\ reverse_dependencies = <<>>
  /\ summands = <<>>
  /\ adjoints = <<>>
  /\ result = <<>>
  /\ frames = <<>>
  /\ ret = NullTensor
  /\ iterated = {}
  /\ next_input = 1
  /\ returned = <<>>
  /\ next_id = 1
  /\ pushed = <<>>
  /\ visited = <<>>
  /\ fdiff_calls = <<>>
  /\ raised = FALSE
  /\ IdleGM /\ IdleD /\ IdleJ
  /\ ir_checks = TRUE

\* ------------------------------------------------------------------ Differentiate
\* Lines 410-432: the head (identity when null) and the initial stack.
MakeHead ==
  /\ pc = "start"
  /\ IF IsNull(head_or_null)
     THEN head' = WithId(IdentityHead, next_id) /\ next_id' = next_id + 1
     ELSE head' = head_or_null /\ next_id' = next_id
  /\ stack' = <<output>>
  /\ pushed' = <<output>>
  /\ pc' = "collect"
  /\ UNCHANGED <<args, reverse_dependencies, summands, adjoints, result,
                 frames, ret, iterated, next_input, returned, visited,
                 fdiff_calls, raised, gmvars, ir_checks, dvars, jvars>>

\* std::unordered_map::count
count(m, k) == IF k \in DOMAIN m THEN 1 ELSE 0

\* push_back_at inserting at the front of the vector.
push_back_at_front(m, k, v) ==
  IF k \in DOMAIN m THEN [m EXCEPT ![k] = <<v>> \o @] ELSE (k :> <<v>>) @@ m

\* m[k].push_back(v), operator[] inserting an empty vector for a new key
push_back_at(m, k, v) ==
  IF k \in DOMAIN m THEN [m EXCEPT ![k] = Append(@, v)] ELSE (k :> <<v>>) @@ m

\* ScanChildren recording a reverse dependency only for a child seen for the
\* first time.
RECURSIVE ScanChildren_onlyNew(_, _, _, _)
ScanChildren_onlyNew(tensor, children, i, st) ==
  IF i > Len(children) THEN st
  ELSE LET child == children[i]
           new == count(st.reverse_dependencies, child) = 0
       IN  ScanChildren_onlyNew(tensor, children, i + 1,
             [stack |-> IF new THEN Append(st.stack, child) ELSE st.stack,
              pushed |-> IF new THEN Append(st.pushed, child) ELSE st.pushed,
              reverse_dependencies |->
                IF new THEN push_back_at(st.reverse_dependencies, child, tensor)
                ELSE st.reverse_dependencies])

\* ScanChildren pushing every child, seen before or not.
RECURSIVE ScanChildren_alwaysPush(_, _, _, _)
ScanChildren_alwaysPush(tensor, children, i, st) ==
  IF i > Len(children) THEN st
  ELSE LET child == children[i]
       IN  ScanChildren_alwaysPush(tensor, children, i + 1,
             [stack |-> Append(st.stack, child),
              pushed |-> Append(st.pushed, child),
              reverse_dependencies |->
                push_back_at(st.reverse_dependencies, child, tensor)])

\* ScanChildren recording the child as a consumer of the tensor.
RECURSIVE ScanChildren_reversed(_, _, _, _)
ScanChildren_reversed(tensor, children, i, st) ==
  IF i > Len(children) THEN st
  ELSE LET child == children[i]
           new == child \notin Range(st.pushed)
       IN  ScanChildren_reversed(tensor, children, i + 1,
             [stack |-> IF new THEN Append(st.stack, child) ELSE st.stack,
              pushed |-> IF new THEN Append(st.pushed, child) ELSE st.pushed,
              reverse_dependencies |->
                push_back_at(st.reverse_dependencies, tensor, child)])

\* Lines 438-442: the loop over the sub-tensors of tensor's body, from child
\* number i on; st = [stack, reverse_dependencies, pushed].
RECURSIVE ScanChildren(_, _, _, _)
ScanChildren(tensor, children, i, st) ==
  IF i > Len(children) THEN st
  ELSE LET child == children[i]
           new == count(st.reverse_dependencies, child) = 0
       IN  ScanChildren(tensor, children, i + 1,
             [stack |-> IF new THEN Append(st.stack, child) ELSE st.stack,
              pushed |-> IF new THEN Append(st.pushed, child) ELSE st.pushed,
              reverse_dependencies |->
                push_back_at(st.reverse_dependencies, child, tensor)])

\* Lines 434-443: the body of the while loop applied to
\* st = [stack, reverse_dependencies, pushed]: the last tensor is popped
\* and, if a ComputeOp made it, the sub-tensors of its body are scanned.
PopAndScan(st) ==
  LET tensor == st.stack[Len(st.stack)]
      popped == [st EXCEPT !.stack = Prefix(st.stack, Len(st.stack) - 1)]
  IN  IF is_compute[tensor]
      THEN ScanChildren(tensor, subtensors[tensor], 1, popped)
      ELSE popped

\* Lines 433-444: one iteration of the while loop.
Visit ==
  /\ pc = "collect"
  /\ stack # <<>>
  /\ LET st == PopAndScan([stack |-> stack, pushed |-> pushed,
                           reverse_dependencies |-> reverse_dependencies])
     IN  /\ stack' = st.stack
         /\ pushed' = st.pushed
         /\ reverse_dependencies' = st.reverse_dependencies
         /\ visited' = Append(visited, stack[Len(stack)])
  /\ UNCHANGED <<args, pc, head, summands, adjoints, result, control,
                 fdiff_calls, raised, gmvars, ir_checks, dvars, jvars>>

\* BeginAdjoints leaving the adjoint of output unset.
BeginAdjoints_noHead ==
  /\ pc = "collect"
  /\ stack = <<>>
  /\ adjoints' = <<>>
  /\ pc' = IF inputs = <<>> THEN "all" ELSE "inputs"
  /\ UNCHANGED <<args, head, stack, reverse_dependencies, summands, result,
                 control, trace, gmvars, ir_checks, dvars, jvars>>

\* BeginAdjoints going straight to the loop over inputs.
BeginAdjoints_skipAll ==
  /\ pc = "collect"
  /\ stack = <<>>
  /\ adjoints' = (output :> head)
  /\ pc' = "inputs"
  /\ UNCHANGED <<args, head, stack, reverse_dependencies, summands, result,
                 control, trace, gmvars, ir_checks, dvars, jvars>>

\* Lines 446-452: the traversal is over; head is the adjoint of output.
BeginAdjoints ==
  /\ pc = "collect"
  /\ stack = <<>>
  /\ adjoints' = (output :> head)
  /\ pc' = IF inputs = <<>> THEN "all" ELSE "inputs"
  /\ UNCHANGED <<args, head, stack, reverse_dependencies, summands, result,
                 control, trace, gmvars, ir_checks, dvars, jvars>>

\* The activation record of a compute_adjoint(tensor) call that has not yet
\* executed its first statement.
NewFrame(tensor) ==
  [tensor |-> tensor, at |-> "entry", deps |-> <<>>, i |-> 0,
   res_adjoint |-> NullTensor]

Top      == frames[Len(frames)]
Popped   == Prefix(frames, Len(frames) - 1)

\* ZeroAdjoint taking the dtype of the tensor instead of output's.
ZeroAdjoint_tensorDtype(tensor) ==
  topi_full(Prefix(head.shape, Len(head.shape) - Rank(output)) \o shape[tensor],
            DType(tensor), make_zero(DType(tensor)))

\* Lines 467-471: the zero adjoint of a tensor output does not depend on.
ZeroAdjoint(tensor) ==
  topi_full(Prefix(head.shape, Len(head.shape) - Rank(output)) \o shape[tensor],
            DType(output), make_zero(DType(output)))

\* AdjointKnown without the memo: every call computes the adjoint anew.
AdjointKnown_never(a, tensor) == FALSE

\* AdjointKnown looking up every tensor but output.
AdjointKnown_exceptOutput(a, tensor) == tensor # output /\ count(a, tensor) # 0

\* Line 460: the adjoint of tensor has been computed already.
AdjointKnown(a, tensor) == count(a, tensor) # 0

\* Lines 460-472, 491-493: a compute_adjoint call starts. A memoized adjoint
\* is returned; otherwise deps is copied out of reverse_dependencies
\* (operator[] inserts the key), a tensor without deps gets the zero adjoint
\* and a tensor with deps calls compute_adjoint on the first of them.
Enter ==
  /\ pc \in {"all", "inputs"}
  /\ frames # <<>>
  /\ Top.at = "entry"
  /\ LET tensor == Top.tensor
         deps == IF tensor \in DOMAIN reverse_dependencies
                 THEN reverse_dependencies[tensor] ELSE <<>>
     IN  IF AdjointKnown(adjoints, tensor)
         THEN /\ frames' = Popped
              /\ ret' = adjoints[tensor]
              /\ UNCHANGED <<reverse_dependencies, adjoints, next_id>>
         ELSE /\ reverse_dependencies' =
                   IF tensor \in DOMAIN reverse_dependencies
                   THEN reverse_dependencies
                   ELSE (tensor :> <<>>) @@ reverse_dependencies
              /\ IF deps = <<>>
                 THEN LET res_adjoint == WithId(ZeroAdjoint(tensor), next_id)
                      IN  /\ adjoints' = (tensor :> res_adjoint) @@ adjoints
                          /\ frames' = Popped
                          /\ ret' = res_adjoint
                          /\ next_id' = next_id + 1
                 ELSE /\ frames' = Append(
                           Append(Popped, [Top EXCEPT !.at = "loop", !.deps = deps,
                                                      !.i = 1]),
                           NewFrame(deps[1]))
                      /\ ret' = NullTensor
                      /\ UNCHANGED <<adjoints, next_id>>
  /\ UNCHANGED <<args, pc, head, stack, summands, result, iterated,
                 next_input, returned, trace, gmvars, ir_checks, dvars, jvars>>

\* The building block passed as fdiff: DiffBuildingBlock by default.
fdiff(dep, tensor, head_t) == DiffBuildingBlock(dep, tensor, head_t)

\* The map keeping the part it already holds for a consumer.
summands_Set_keepFirst(m, tensor, dep, part) ==
  IF tensor \in DOMAIN m
  THEN [m EXCEPT ![tensor] =
          IF dep \in DOMAIN @ THEN @ ELSE (dep :> part) @@ @]
  ELSE (tensor :> (dep :> part)) @@ m

\* summands[tensor].Set(dep, part), the map being created on first use
summands_Set(m, tensor, dep, part) ==
  IF tensor \in DOMAIN m
  THEN [m EXCEPT ![tensor] =
          IF dep \in DOMAIN @ THEN [@ EXCEPT ![dep] = part] ELSE (dep :> part) @@ @]
  ELSE (tensor :> (dep :> part)) @@ m

\* Accumulate whose operand order follows the identity of the new node.
Accumulate_byId(res_adjoint, part, id) ==
  IF IsNull(res_adjoint) THEN part
  ELSE IF id % 2 = 0 THEN WithId(topi_add(part, res_adjoint), id)
  ELSE WithId(topi_add(res_adjoint, part), id)

\* res_adjoint.get() ? topi::add(res_adjoint, part) : part
Accumulate(res_adjoint, part, id) ==
  IF IsNull(res_adjoint) THEN part ELSE WithId(topi_add(res_adjoint, part), id)

\* Lines 476-490: compute_adjoint(dep) has returned into the loop over deps:
\* fdiff is applied to it, the part is accumulated and recorded, and the
\* loop either goes on with the next dep or stores and returns the adjoint.
FDiff ==
  /\ pc \in {"all", "inputs"}
  /\ frames # <<>>
  /\ Top.at = "loop"
  /\ ~IsNull(ret)
  /\ LET tensor == Top.tensor
         dep == Top.deps[Top.i]
         part == WithId(fdiff(dep, tensor, ret), next_id)
         res_adjoint == Accumulate(Top.res_adjoint, part, next_id + 1)
     IN  /\ ~IsError(part)
         /\ ~IsError(res_adjoint)
         /\ fdiff_calls' = Append(fdiff_calls,
              [consumer |-> dep, producer |-> tensor, head |-> ret])
         /\ summands' = summands_Set(summands, tensor, dep, part)
         /\ next_id' = next_id + (IF IsNull(Top.res_adjoint) THEN 1 ELSE 2)
         /\ IF Top.i < Len(Top.deps)
            THEN /\ frames' = Append(
                      Append(Popped, [Top EXCEPT !.i = @ + 1,
                                                 !.res_adjoint = res_adjoint]),
                      NewFrame(Top.deps[Top.i + 1]))
                 /\ ret' = NullTensor
                 /\ UNCHANGED adjoints
            ELSE /\ adjoints' = (tensor :> res_adjoint) @@ adjoints
                 /\ frames' = Popped
                 /\ ret' = res_adjoint
  /\ UNCHANGED <<args, pc, head, stack, reverse_dependencies, result,
                 iterated, next_input, returned, pushed, visited, raised,
                 gmvars, ir_checks, dvars, jvars>>

\* FDiffThrows with the exception caught and the maps built so far returned.
FDiffThrows_swallowed ==
  /\ pc \in {"all", "inputs"}
  /\ frames # <<>>
  /\ Top.at = "loop"
  /\ ~IsNull(ret)
  /\ fdiff_calls' = Append(fdiff_calls,
       [consumer |-> Top.deps[Top.i], producer |-> Top.tensor, head |-> ret])
  /\ raised' = TRUE
  /\ pc' = "done"
  /\ frames' = <<>>
  /\ ret' = NullTensor
  /\ returned' = <<[result |-> result, adjoints |-> adjoints,
                    adjoint_summands |-> summands]>>
  /\ UNCHANGED <<args, head, stack, reverse_dependencies, summands, adjoints,
                 result, iterated, next_input, next_id, pushed, visited, gmvars, ir_checks, dvars, jvars>>

\* Lines 477-478 raising: fdiff (the Jacobian of an unsupported body, a failed
\* CHECK of generalized_matmul, a pass, a caller's building block) or
\* topi::add throws; the exception leaves Differentiate.
FDiffThrows ==
  /\ pc \in {"all", "inputs"}
  /\ frames # <<>>
  /\ Top.at = "loop"
  /\ ~IsNull(ret)
  /\ fdiff_calls' = Append(fdiff_calls,
       [consumer |-> Top.deps[Top.i], producer |-> Top.tensor, head |-> ret])
  /\ raised' = TRUE
  /\ pc' = "failed"
  /\ frames' = <<>>
  /\ ret' = NullTensor
  /\ UNCHANGED <<args, head, stack, reverse_dependencies, summands, adjoints,
                 result, iterated, next_input, returned, next_id, pushed,
                 visited, gmvars, ir_checks, dvars, jvars>>

\* Lines 500-502: the range-for over reverse_dependencies takes its next
\* element (in the map's unspecified order) and calls compute_adjoint.
CallAll ==
  /\ pc = "all"
  /\ frames = <<>>
  /\ \E dep \in DOMAIN reverse_dependencies \ iterated :
       /\ frames' = <<NewFrame(dep)>>
       /\ iterated' = iterated \cup {dep}
  /\ ret' = NullTensor
  /\ UNCHANGED <<args, locals, next_input, returned, next_id, trace, gmvars, ir_checks, dvars, jvars>>

\* Lines 505-506: compute_adjoint(input) is called for the next input.
CallInput ==
  /\ pc = "inputs"
  /\ frames = <<>>
  /\ IsNull(ret)
  /\ next_input <= Len(inputs)
  /\ frames' = <<NewFrame(inputs[next_input])>>
  /\ UNCHANGED <<args, locals, ret, iterated, next_input, returned, next_id,
                 trace, gmvars, ir_checks, dvars, jvars>>

\* PushResult leaving out a tensor that is in result already.
PushResult_skipRepeated ==
  /\ pc = "inputs"
  /\ frames = <<>>
  /\ ~IsNull(ret)
  /\ result' = IF ret \in Range(result) THEN result ELSE Append(result, ret)
  /\ next_input' = next_input + 1
  /\ ret' = NullTensor
  /\ UNCHANGED <<args, pc, head, stack, reverse_dependencies, summands,
                 adjoints, frames, iterated, returned, next_id, trace, gmvars, ir_checks, dvars, jvars>>

\* Line 506: result.push_back of the value compute_adjoint(input) returned.
PushResult ==
  /\ pc = "inputs"
  /\ frames = <<>>
  /\ ~IsNull(ret)
  /\ result' = Append(result, ret)
  /\ next_input' = next_input + 1
  /\ ret' = NullTensor
  /\ UNCHANGED <<args, pc, head, stack, reverse_dependencies, summands,
                 adjoints, frames, iterated, returned, next_id, trace, gmvars, ir_checks, dvars, jvars>>

\* DifferentiationResultNode::make(result, adjoints, summands)
DifferentiationResultNode_make(r, a, s) ==
  [result |-> r, adjoints |-> a, adjoint_summands |-> s]

\* Line 508: both loops are over; the result node is made and returned.
Return ==
  /\ frames = <<>>
  /\ \/ pc = "all" /\ iterated = DOMAIN reverse_dependencies
     \/ pc = "inputs" /\ next_input > Len(inputs) /\ IsNull(ret)
  /\ returned' = <<DifferentiationResultNode_make(result, adjoints, summands)>>
  /\ pc' = "done"
  /\ ret' = NullTensor
  /\ UNCHANGED <<args, head, stack, reverse_dependencies, summands, adjoints,
                 result, frames, iterated, next_input, next_id, trace, gmvars, ir_checks, dvars, jvars>>

Next ==
  \/ MakeHead
  \/ Visit
  \/ BeginAdjoints
  \/ Enter
  \/ FDiffThrows
  \/ FDiff
  \/ CallAll
  \/ CallInput
  \/ PushResult
  \/ Return

Spec == Init /\ [][Next]_vars

\* The call as the thread that makes it runs it: a statement that can be
\* executed is executed (the loops and the recursion are sequential code).
FairSpec == Spec /\ WF_vars(Next)

\* ------------------------------------------------------------------ generalized_matmul alone
\* The registered API function "generalized_matmul": the operation applied
\* to two operands of any rank up to MaxRank and any ndims_to_reduce.
Shapes == SeqsUpTo(Dims, MaxRank)

Operand(shp, id, name) == GivenTensor("placeholder", id, 0, shp, "float32", name, <<>>, <<>>)

InitGM ==
  /\ subtensors = [t \in Tensors |-> <<>>]
  /\ is_compute = [t \in Tensors |-> FALSE]
  /\ shape = [t \in Tensors |-> <<>>]
  /\ inputs = <<>>
  /\ head_or_null = NullTensor
  /\ pc = "gm"
  /\ head = NullTensor
  /\ stack = <<>>
  /\ reverse_dependencies = <<>>
  /\ summands = <<>>
  /\ adjoints = <<>>
  /\ result = <<>>
  /\ frames = <<>>
  /\ ret = NullTensor
  /\ iterated = {}
  /\ next_input = 1
  /\ returned = <<>>
  /\ next_id = 1
  /\ pushed = <<>>
  /\ visited = <<>>
  /\ fdiff_calls = <<>>
  /\ raised = FALSE
  /\ gm_A \in Shapes
  /\ gm_B \in Shapes
  /\ gm_k \in 0..(MaxRank + 1)
  /\ gm_out = NullTensor
  /\ IdleD /\ IdleJ
  /\ ir_checks = TRUE

\* Lines 380-383: *ret = generalized_matmul(args[0], args[1], args[2])
ApplyGM ==
  /\ pc = "gm"
  /\ gm_out' = generalized_matmul(Operand(gm_A, 1, "A"), Operand(gm_B, 2, "B"), gm_k, <<"tensor">>)
  /\ pc' = "gm_done"
  /\ UNCHANGED <<args, head, stack, reverse_dependencies, summands, adjoints,
                 result, control, trace, gm_A, gm_B, gm_k, ir_checks, dvars, jvars>>

NextGM == ApplyGM

SpecGM == InitGM /\ [][NextGM]_vars

\* ------------------------------------------------------------------ expressions to differentiate
\* Index variables of a body and free scalar variables.
i_var == Variable("int32", "i")
k_var == Variable("int32", "k")
x_var == Variable("float32", "x")
n_var == Variable("int32", "n")

\* Tensors read by the expressions: A and A1 are two outputs of one
\* operation, N holds integers, S is a scalar and M a matrix.
T_A  == GivenTensor("placeholder", 1, 0, <<3>>, "float32", "A", <<>>, <<>>)
T_A1 == GivenTensor("placeholder", 1, 1, <<3>>, "float32", "A", <<>>, <<>>)
T_B  == GivenTensor("placeholder", 2, 0, <<3>>, "float32", "B", <<>>, <<>>)
T_N  == GivenTensor("placeholder", 3, 0, <<3>>, "int32", "N", <<>>, <<>>)
T_S  == GivenTensor("placeholder", 4, 0, <<>>, "float32", "S", <<>>, <<>>)
T_M  == GivenTensor("placeholder", 5, 0, <<2, 3>>, "float32", "M", <<>>, <<>>)

\* The element T(a) of a tensor: a Halide call
Access(T, a) == Call_make(T.dtype, T.name[1], a, "Halide", T.id, T.value_index)

TrueImm == Imm("UIntImm", "bool", 1)

FloatAtoms ==
  {x_var, Imm("FloatImm", "float32", 2), Access(T_A, <<i_var>>), Access(T_A1, <<i_var>>),
   Access(T_B, <<i_var>>), Access(T_S, <<>>), Access(T_M, <<k_var, i_var>>),
   Access(T_A, <<Node("Mod", "int32", <<i_var, Imm("IntImm", "int32", 2)>>)>>)}

IntAtoms == {n_var, Imm("IntImm", "int32", 3), Access(T_N, <<i_var>>)}

\* One node of each kind that has no operand the differentiator could reach.
OpaqueAtoms ==
  {Node("Load", "float32", <<i_var>>),
   Node("Let", "float32", <<n_var, Imm("IntImm", "int32", 3), x_var>>),
   Node("Ramp", "float32", <<x_var, x_var>>),
   Node("Broadcast", "float32", <<x_var>>),
   Node("Shuffle", "float32", <<x_var>>),
   [Node("StringImm", "handle", <<>>) EXCEPT !.name = "text"]}

\* Second operands and conditions of the composite expressions.
FloatOperands == {x_var, Access(T_A, <<i_var>>)}
IntOperands   == {n_var}
OperandsOf(type) ==
  IF type = "float32" THEN FloatOperands
  ELSE IF type = "int32" THEN IntOperands
  ELSE IF type = "bool" THEN {TrueImm}
  ELSE {}

Conditions ==
  {TrueImm,
   Node("LT", "bool", <<Node("Mod", "int32", <<n_var, Imm("IntImm", "int32", 2)>>),
                        Imm("IntImm", "int32", 3)>>),
   Node("And", "bool", <<TrueImm, Node("Not", "bool", <<TrueImm>>)>>)}

Atoms == FloatAtoms \cup IntAtoms \cup OpaqueAtoms \cup {TrueImm}

ArithKinds == {"Add", "Sub", "Mul", "Div", "Min", "Max"}
CmpKinds == {"EQ", "NE", "LT", "LE", "GT", "GE"}
Intrinsics == {"exp", "log", "sigmoid", "tanh", "fabs", "sqrt"}

\* Comparisons, logical operations and remainders of operands.
Unsupported ==
  {Node("Mod", a.type, <<a, b>>) : a \in IntAtoms, b \in IntOperands}
  \cup UNION {{Node(kind, "bool", <<a, b>>) : kind \in CmpKinds, b \in OperandsOf(a.type)} :
                a \in FloatOperands \cup IntOperands}
  \cup {Node(kind, "bool", <<c, TrueImm>>) : kind \in {"And", "Or"}, c \in Conditions}
  \cup {Node("Not", "bool", <<c>>) : c \in Conditions}

\* The combiner of a sum, and one of two components: a sum and the second
\* component of whichever side has the larger first component.
SumCombiner(type) ==
  LET l == Variable(type, "lhs0")
      r == Variable(type, "rhs0")
  IN  CommReducerNode_make(<<l>>, <<r>>, <<Node("Add", type, <<l, r>>)>>,
                           <<MakeZero(type)>>)

PairCombiner(type) ==
  LET l0 == Variable("float32", "lhs0")
      r0 == Variable("float32", "rhs0")
      l1 == Variable(type, "lhs1")
      r1 == Variable(type, "rhs1")
  IN  CommReducerNode_make(
        <<l0, l1>>, <<r0, r1>>,
        <<Node("Add", "float32", <<l0, r0>>),
          Node("Select", type, <<Node("GE", "bool", <<l0, r0>>), l1, r1>>)>>,
        <<MakeZero("float32"), MakeZero(type)>>)

\* A combiner whose result reads a tensor: lhs0 + rhs0 * S().
ScaledCombiner ==
  LET l == Variable("float32", "lhs0")
      r == Variable("float32", "rhs0")
  IN  CommReducerNode_make(
        <<l>>, <<r>>,
        <<Node("Add", "float32", <<l, Node("Mul", "float32", <<r, Access(T_S, <<>>)>>)>>)>>,
        <<MakeZero("float32")>>)

ReduceAxis == <<IterVarNode_make(2, k_var)>>

\* The reductions over axis k of a source e.
Reductions(e) ==
  {Reduce_make(SumCombiner(e.type), <<e>>, ReduceAxis, c, 0) : c \in Conditions}
  \cup (IF e.type # "float32" THEN {}
        ELSE {Reduce_make(PairCombiner(s.type), <<e, s>>, ReduceAxis, TrueImm, vi) :
                s \in {x_var, k_var}, vi \in {0, 1}}
              \cup {Reduce_make(ScaledCombiner, <<e>>, ReduceAxis, TrueImm, 0)})

\* The expressions with one more operator than those of E.
Grow(E) ==
  LET Numeric == {e \in E : e.type \in {"float32", "float64", "int32"}}
      Floats  == {e \in E : is_float(e.type)}
  IN  UNION {{Node(kind, a.type, <<a, b>>) : kind \in ArithKinds, b \in OperandsOf(a.type)} :
               a \in Numeric}
      \cup UNION {{Node("Select", t.type, <<c, t, f>>) : c \in Conditions,
                                                         f \in OperandsOf(t.type)} :
                    t \in Numeric}
      \cup {Node("Cast", type, <<a>>) : type \in {"float32", "float64", "int32"},
                                         a \in Numeric}
      \cup {Call_make(a.type, name, <<a>>, "PureIntrinsic", 0, 0) :
              name \in Intrinsics, a \in Floats}
      \cup {Call_make(a.type, "extern_fn", <<a>>, "Extern", 0, 0) : a \in FloatOperands}
      \cup UNION {Reductions(e) : e \in {a \in Numeric : a.type # "float64"}}

RECURSIVE Exprs(_)
Exprs(depth) ==
  IF depth = 0 THEN Atoms \cup Unsupported
  ELSE LET E == Exprs(depth - 1) IN E \cup Grow(E)

\* What the expressions are differentiated with respect to.
JacIndices(T) == [i \in DOMAIN T.shape |-> Variable("int32", "jac_i" \o ToString(i - 1))]

WrtTensors == {WrtTensor(T, JacIndices(T)) : T \in {T_A, T_N, T_S, T_M}}
WrtVars == {WrtVar(v) : v \in {x_var, n_var}}

\* ------------------------------------------------------------------ the scalar differentiator alone
IdleDifferentiate ==
  /\ subtensors = [t \in Tensors |-> <<>>]
  /\ is_compute = [t \in Tensors |-> FALSE]
  /\ shape = [t \in Tensors |-> <<>>]
  /\ inputs = <<>>
  /\ head_or_null = NullTensor
  /\ head = NullTensor
  /\ stack = <<>>
  /\ reverse_dependencies = <<>>
  /\ summands = <<>>
  /\ adjoints = <<>>
  /\ result = <<>>
  /\ frames = <<>>
  /\ ret = NullTensor
  /\ iterated = {}
  /\ next_input = 1
  /\ returned = <<>>
  /\ next_id = 1
  /\ pushed = <<>>
  /\ visited = <<>>
  /\ fdiff_calls = <<>>
  /\ raised = FALSE

\* The differentiator applied to one expression, as the tensor Jacobian
\* applies it (Jacobian(expr, input, indices)) or as the registered API
\* function "Derivative" does, with node constructors that check their
\* operands' types or do not.
InitD ==
  /\ IdleDifferentiate /\ IdleGM /\ IdleJ
  /\ pc = "diff"
  /\ ir_checks \in BOOLEAN
  /\ d_expr \in Exprs(MaxDepth)
  /\ d_wrt \in WrtTensors \cup WrtVars
  /\ d_out = NullExpr

\* Jacobian(expr, input, indices)
ApplyJacobian ==
  /\ pc = "diff"
  /\ d_wrt.input # <<>>
  /\ d_out' = JacobianExpr(d_expr, d_wrt.input[1], d_wrt.indices)
  /\ pc' = "diff_done"
  /\ UNCHANGED <<args, head, stack, reverse_dependencies, summands, adjoints,
                 result, control, trace, gmvars, ir_checks, d_expr, d_wrt, jvars>>

\* Derivative(expr, var)
ApplyDerivative ==
  /\ pc = "diff"
  /\ d_wrt.input_var # <<>>
  /\ d_out' = Derivative(d_expr, d_wrt.input_var[1])
  /\ pc' = "diff_done"
  /\ UNCHANGED <<args, head, stack, reverse_dependencies, summands, adjoints,
                 result, control, trace, gmvars, ir_checks, d_expr, d_wrt, jvars>>

NextD == ApplyJacobian \/ ApplyDerivative

SpecD == InitD /\ [][NextD]_vars

\* ------------------------------------------------------------------ the tensor Jacobian alone
\* The axes of a ComputeOp of the given shape.
AxisOf(shp) ==
  [i \in DOMAIN shp |-> IterVarNode_make(shp[i], Variable("int32", "i" \o ToString(i - 1)))]

\* The element of inp read at the first axes of the output (at 0 where the
\* output has fewer axes than inp).
ReadAt(inp, axis) ==
  Access(inp, [m \in DOMAIN inp.shape |->
                 IF m <= Len(axis) THEN axis[m].var ELSE Imm("IntImm", "int32", 0)])

\* The value read from inp as a float32.
ReadAs32(inp, axis) ==
  IF inp.dtype = "float32" THEN ReadAt(inp, axis)
  ELSE Node("Cast", "float32", <<ReadAt(inp, axis)>>)

\* Bodies of an output with the given axes reading inp.
JBodies(inp, axis) ==
  LET r == ReadAs32(inp, axis)
  IN  {<<r>>,
       <<Node("Mul", "float32", <<r, r>>)>>,
       <<Imm("FloatImm", "float32", 2)>>,
       <<Node("Load", "float32", <<i_var>>)>>,
       <<Reduce_make(SumCombiner("float32"), <<r>>, ReduceAxis, TrueImm, 0)>>,
       <<Reduce_make(PairCombiner("float32"), <<r, x_var>>, ReduceAxis, TrueImm, 0),
         Reduce_make(PairCombiner("float32"), <<r, x_var>>, ReduceAxis, TrueImm, 1)>>}

JInputs ==
  {GivenTensor("placeholder", 2, 0, shp, dt, "input", <<>>, <<>>) :
     shp \in Shapes, dt \in {"float32", "float64"}}

JOutputs(inp) ==
  UNION {{GivenTensor("compute", 1, vi, shp, "float32", "output", AxisOf(shp), body) :
            body \in JBodies(inp, AxisOf(shp)), vi \in {0, 1}} : shp \in Shapes}
  \cup {GivenTensor("placeholder", 1, 0, shp, "float32", "output", <<>>, <<>>) :
          shp \in Shapes}

\* The registered API function "Jacobian" on tensors.
InitJ ==
  /\ IdleDifferentiate /\ IdleGM /\ IdleD
  /\ pc = "jac"
  /\ ir_checks \in BOOLEAN
  /\ j_input \in JInputs
  /\ j_output \in {o \in JOutputs(j_input) : o.value_index < Len(o.body) \/ o.body = <<>>}
  /\ j_optimize \in BOOLEAN
  /\ j_out = NullTensor

\* The call answering zeros for an output that is not computed.
ApplyJacobianTensor_placeholders ==
  /\ pc = "jac"
  /\ j_out' = IF j_output.op = "compute"
              THEN JacobianTensor(j_output, j_input, j_optimize)
              ELSE topi_full(j_output.shape \o j_input.shape, j_output.dtype,
                             make_zero(j_output.dtype))
  /\ pc' = "jac_done"
  /\ UNCHANGED <<args, head, stack, reverse_dependencies, summands, adjoints,
                 result, control, trace, gmvars, ir_checks, dvars, j_output, j_input,
                 j_optimize>>

\* Lines 519-526: *ret = Jacobian(args[0], args[1], args[2])
ApplyJacobianTensor ==
  /\ pc = "jac"
  /\ j_out' = JacobianTensor(j_output, j_input, j_optimize)
  /\ pc' = "jac_done"
  /\ UNCHANGED <<args, head, stack, reverse_dependencies, summands, adjoints,
                 result, control, trace, gmvars, ir_checks, dvars, j_output, j_input,
                 j_optimize>>

NextJ == ApplyJacobianTensor

SpecJ == InitJ /\ [][NextJ]_vars

\* ------------------------------------------------------------------ properties
NoRepeats(s) == \A i, j \in 1..Len(s) : s[i] = s[j] => i = j

InCall == pc \in {"collect", "all", "inputs", "done", "failed"}
Collected == pc \in {"all", "inputs", "done", "failed"}

\* Tensors read by a tensor that output transitively reads.
ReadBy(C) == Range(subtensors[C])
Unread(T) == T # output /\ \A C \in Reachable(subtensors) : T \notin ReadBy(C)

\* The consumers recorded for T.
Consumers(T) ==
  IF T \in DOMAIN reverse_dependencies THEN reverse_dependencies[T] ELSE <<>>

\* Some tensor is read by two different consumers (a diamond).
Diamond ==
  \E X \in DOMAIN reverse_dependencies :
    Cardinality(Range(reverse_dependencies[X])) >= 2

\* The head has at least output's rank and ends with output's axes.
HeadFits ==
  /\ Len(head.shape) >= Rank(output)
  /\ Drop(head.shape, Len(head.shape) - Rank(output)) = shape[output]

\* The leading axes of head that are not output's.
HeadBatch == Prefix(head.shape, Len(head.shape) - Rank(output))

\* C1: with the default building block and a head whose last rank(output)
\* axes are output's, every adjoint, in every state of the call and in the
\* returned map, has shape head.shape[:h-r] ++ T.shape.
HeadShapeLaw ==
  (InCall /\ HeadFits) =>
    /\ \A T \in DOMAIN adjoints : adjoints[T].shape = HeadBatch \o shape[T]
    /\ \A k \in 1..Len(returned) : \A T \in DOMAIN returned[k].adjoints :
         returned[k].adjoints[T].shape = HeadBatch \o shape[T]

\* C1 witness: a call with a caller's head returned adjoints for output, for
\* a tensor with two consumers and for a tensor without consumers.
HeadShapeLawWitness ==
  /\ pc = "done"
  /\ ~IsNull(head_or_null)
  /\ HeadFits
  /\ Rank(output) > 0
  /\ \E T, U \in DOMAIN returned[1].adjoints :
       /\ Len(Consumers(T)) >= 2
       /\ U # output
       /\ Consumers(U) = <<>>

\* C3: a tensor other than output that no tensor reachable from output reads
\* gets, when asked for, the zero-filled adjoint of shape
\* head.shape[:-rank(output)] ++ T.shape and output's dtype; fdiff is never
\* invoked with it as producer, and asking only for such tensors raises no
\* error.
ZeroLaw ==
  /\ \A T \in Tensors : Unread(T) =>
       /\ T \in DOMAIN adjoints =>
            /\ adjoints[T].op = "full"
            /\ adjoints[T].name = <<"full", "0">>
            /\ adjoints[T].shape = HeadBatch \o shape[T]
            /\ adjoints[T].dtype = DType(output)
       /\ \A n \in 1..Len(fdiff_calls) : fdiff_calls[n].producer # T
       /\ (pc = "done" /\ T \in Range(inputs)) =>
            /\ T \in DOMAIN returned[1].adjoints
            /\ returned[1].adjoints[T] = adjoints[T]
  /\ (/\ inputs # <<>>
      /\ \A i \in 1..Len(inputs) : Unread(inputs[i]) \/ inputs[i] = output) => ~raised

\* C3 witness: a call returned the adjoint of an unread tensor whose dtype
\* and shape differ from output's, under a head with a batch axis.
ZeroLawWitness ==
  /\ pc = "done"
  /\ \E T \in Range(inputs) :
       /\ Unread(T)
       /\ DType(T) # DType(output)
       /\ shape[T] # shape[output]
       /\ T \in DOMAIN returned[1].adjoints
  /\ HeadBatch # <<>>
  /\ Rank(output) > 0

\* C4: after the traversal reverse_dependencies is the transpose of the
\* reachable graph: every reachable compute tensor C is listed under each
\* sub-tensor of its body, every listed consumer is reachable and reads the
\* key, and no consumer is listed twice when no body reports a tensor twice.
RdepsIsTranspose ==
  Collected =>
    /\ \A C \in Reachable(subtensors) : is_compute[C] =>
         \A X \in ReadBy(C) :
           /\ X \in DOMAIN reverse_dependencies
           /\ C \in Range(reverse_dependencies[X])
    /\ \A X \in DOMAIN reverse_dependencies :
         \A C \in Range(reverse_dependencies[X]) :
           C \in Reachable(subtensors) /\ X \in ReadBy(C)
    /\ (\A C \in Tensors : NoRepeats(subtensors[C])) =>
         \A X \in DOMAIN reverse_dependencies :
           NoRepeats(reverse_dependencies[X])

\* C4 witness: the traversal of a graph without repeated sub-tensors, in
\* which every tensor is reachable and one is read by two consumers, is over.
RdepsIsTransposeWitness ==
  /\ Collected
  /\ Diamond
  /\ Reachable(subtensors) = Tensors
  /\ \A C \in Tensors : NoRepeats(subtensors[C])

\* C5: no tensor is pushed on the stack twice and none is visited twice.
VisitedOnce == NoRepeats(pushed) /\ NoRepeats(visited)

\* C5 witness: the traversal of a diamond is over, every tensor visited.
VisitedOnceWitness ==
  /\ Collected
  /\ Diamond
  /\ Len(visited) = NumTensors

\* First position of x in s.
Pos(s, x) == CHOOSE i \in 1..Len(s) : s[i] = x /\ \A j \in 1..(i - 1) : s[j] # x

\* The consumers fdiff has been invoked with for producer T, in call order.
RECURSIVE ConsumersCalled(_, _)
ConsumersCalled(T, n) ==
  IF n = 0 THEN <<>>
  ELSE IF fdiff_calls[n].producer = T
       THEN Append(ConsumersCalled(T, n - 1), fdiff_calls[n].consumer)
       ELSE ConsumersCalled(T, n - 1)

IsPrefixOf(p, s) == Len(p) <= Len(s) /\ \A i \in 1..Len(p) : p[i] = s[i]

\* The contributions to adjoints[T] are computed and added in the order of
\* reverse_dependencies[T].
SummedInRdepsOrder ==
  \A T \in Tensors :
    IsPrefixOf(ConsumersCalled(T, Len(fdiff_calls)), Consumers(T))

\* reverse_dependencies[T] lists consumers in the order of the sequence s.
RdepsOrderedBy(s) ==
  \A T \in DOMAIN reverse_dependencies :
    \A i, j \in 1..Len(reverse_dependencies[T]) :
      i < j => Pos(s, reverse_dependencies[T][i]) <= Pos(s, reverse_dependencies[T][j])

\* C2 as stated: the contributions of the consumers of T are summed in the
\* order of reverse_dependencies[T], which is the order in which the
\* consumers were first pushed on the traversal stack.
SumOrderIsDiscoveryOrder == SummedInRdepsOrder /\ RdepsOrderedBy(pushed)

\* C2 amended: the contributions of the consumers of T are summed in the
\* order of reverse_dependencies[T], which is the order in which the
\* consumers were popped from the traversal stack and scanned.
SumOrderIsVisitOrder == SummedInRdepsOrder /\ RdepsOrderedBy(visited)

\* C2 witness: a call returned after summing two contributions of a tensor
\* whose consumers were visited in the reverse of their discovery order.
SumOrderWitness ==
  /\ pc = "done"
  /\ \E T \in DOMAIN reverse_dependencies :
       /\ Len(reverse_dependencies[T]) = 2
       /\ Len(ConsumersCalled(T, Len(fdiff_calls))) = 2
       /\ Pos(pushed, reverse_dependencies[T][1]) > Pos(pushed, reverse_dependencies[T][2])

\* The head the call works with: the caller's, or the identity.
ExpectedHead == IF IsNull(head_or_null) THEN IdentityHead ELSE head_or_null

\* An expression without the identities of the tensors it reads.
RECURSIVE StripExpr(_)
StripExpr(e) ==
  [e EXCEPT !.func = 0, !.args = [i \in DOMAIN e.args |-> StripExpr(e.args[i])]]

\* A created tensor without the identities of its nodes.
RECURSIVE Strip(_)
Strip(t) ==
  [t EXCEPT !.id = 0, !.operands = [i \in DOMAIN t.operands |-> Strip(t.operands[i])],
            !.body = [i \in DOMAIN t.body |-> StripExpr(t.body[i])]]

\* C6: from the initialisation of adjoints on, adjoints[output] is the head
\* (the caller's head, or the identity); the returned map holds it too, and
\* the result entry of output, when output is an input, is the head.
AdjointOfOutputIsHead ==
  Collected =>
    /\ Strip(head) = ExpectedHead
    /\ output \in DOMAIN adjoints
    /\ adjoints[output] = head
    /\ \A k \in 1..Len(returned) :
         /\ returned[k].adjoints[output] = head
         /\ \A i \in 1..Len(inputs) :
              inputs[i] = output => returned[k].result[i] = head

\* C6 witness: a call asked for another tensor and then for output returned.
AdjointOfOutputWitness ==
  /\ pc = "done"
  /\ Len(inputs) = 2
  /\ inputs[1] # output
  /\ inputs[2] = output

\* C7: the returned result has one entry per input, entry i being the very
\* tensor the returned adjoints map holds for inputs[i].
ResultMirrorsInputs ==
  \A k \in 1..Len(returned) :
    /\ Len(returned[k].result) = Len(inputs)
    /\ \A i \in 1..Len(inputs) :
         /\ inputs[i] \in DOMAIN returned[k].adjoints
         /\ returned[k].result[i] = returned[k].adjoints[inputs[i]]

\* C7 witness: a call returned that was asked twice for the same tensor, one
\* with consumers.
ResultMirrorsInputsWitness ==
  /\ pc = "done"
  /\ Len(inputs) = 2
  /\ inputs[1] = inputs[2]
  /\ inputs[1] # output
  /\ Consumers(inputs[1]) # <<>>

\* The reverse dependencies of the graph: the while loop run to its end.
RECURSIVE CollectFrom(_)
CollectFrom(st) == IF st.stack = <<>> THEN st ELSE CollectFrom(PopAndScan(st))

ExpectedRdeps ==
  CollectFrom([stack |-> <<output>>, pushed |-> <<output>>,
               reverse_dependencies |-> <<>>]).reverse_dependencies

\* The adjoint of T as a function of the graph and the head alone.
RECURSIVE ExpectedAdjoint(_)
RECURSIVE ExpectedSum(_, _, _, _)
ExpectedAdjoint(T) ==
  IF T = output THEN ExpectedHead
  ELSE IF T \notin DOMAIN ExpectedRdeps
       THEN topi_full(Prefix(ExpectedHead.shape,
                             Len(ExpectedHead.shape) - Rank(output)) \o shape[T],
                      DType(output), make_zero(DType(output)))
       ELSE ExpectedSum(T, ExpectedRdeps[T], 1, NullTensor)

ExpectedPart(C, T) == fdiff(C, T, ExpectedAdjoint(C))

ExpectedSum(T, deps, i, acc) ==
  IF i > Len(deps) THEN acc
  ELSE ExpectedSum(T, deps, i + 1,
         IF IsNull(acc) THEN ExpectedPart(deps[i], T)
         ELSE topi_add(acc, ExpectedPart(deps[i], T)))

\* C8: the adjoints and summands a call holds and returns are functions of
\* the graph and the head: whatever the order in which the tensors were
\* requested, adjoints[T] is ExpectedAdjoint(T) and summands[T][C] is
\* ExpectedPart(C, T), up to the identity of the nodes.
Determinism ==
  Collected =>
    /\ \A T \in DOMAIN adjoints : Strip(adjoints[T]) = ExpectedAdjoint(T)
    /\ \A T \in DOMAIN summands : \A C \in DOMAIN summands[T] :
         Strip(summands[T][C]) = ExpectedPart(C, T)
    /\ \A k \in 1..Len(returned) :
         /\ returned[k].adjoints = adjoints
         /\ returned[k].adjoint_summands = summands

\* C8 witness: a call over a diamond, asked for all adjoints, took the keys
\* of reverse_dependencies in an order other than the increasing one and
\* returned.
DeterminismWitness ==
  /\ pc = "done"
  /\ inputs = <<>>
  /\ Diamond
  /\ \E T, U \in DOMAIN adjoints \ {output} :
       T < U /\ adjoints[T].id > adjoints[U].id
  /\ \E T, U \in DOMAIN adjoints \ {output} :
       T < U /\ adjoints[T].id < adjoints[U].id

\* C9: once fdiff has thrown, the call has failed and returns nothing; a
\* result is made only when nothing was thrown, no compute_adjoint call is
\* pending, every requested adjoint is in the map and every fdiff invocation
\* made has its part recorded.
ErrorPropagation ==
  /\ raised => (pc = "failed" /\ returned = <<>>)
  /\ returned # <<>> =>
       /\ ~raised
       /\ pc = "done"
       /\ frames = <<>>
       /\ \A i \in 1..Len(inputs) : inputs[i] \in DOMAIN returned[1].adjoints
       /\ inputs = <<>> =>
            DOMAIN reverse_dependencies \subseteq DOMAIN returned[1].adjoints
       /\ \A n \in 1..Len(fdiff_calls) :
            /\ fdiff_calls[n].producer \in DOMAIN returned[1].adjoint_summands
            /\ fdiff_calls[n].consumer \in
                 DOMAIN returned[1].adjoint_summands[fdiff_calls[n].producer]

\* C9 witness: fdiff threw on the third edge or later, after adjoints other
\* than output's had been stored.
ErrorPropagationWitness ==
  /\ raised
  /\ Len(fdiff_calls) >= 3
  /\ DOMAIN adjoints # {output}
  /\ summands # <<>>

\* C10: generalized_matmul(A, B, k) with rank(A) >= k and rank(B) >= k
\* returns a tensor of rank rank(A) + rank(B) - 2k whose axes are those of A
\* without its last k followed by those of B without its first k.
MatmulShape ==
  (pc = "gm_done" /\ Len(gm_A) >= gm_k /\ Len(gm_B) >= gm_k) =>
    /\ ~IsError(gm_out)
    /\ Len(gm_out.shape) = Len(gm_A) + Len(gm_B) - 2 * gm_k
    /\ \A i \in 1..(Len(gm_A) - gm_k) : gm_out.shape[i] = gm_A[i]
    /\ \A j \in 1..(Len(gm_B) - gm_k) :
         gm_out.shape[Len(gm_A) - gm_k + j] = gm_B[gm_k + j]

\* C10 witness: two matrices with different extents were contracted over
\* one axis.
MatmulShapeWitness ==
  /\ pc = "gm_done"
  /\ gm_k = 1
  /\ Len(gm_A) = 2 /\ gm_A[1] # gm_A[2]
  /\ Len(gm_B) = 2 /\ gm_B[1] # gm_B[2]
  /\ ~IsError(gm_out)

\* The contracted extents of the two operands: the last k of A and the
\* first k of B.
ContractedDiffer ==
  /\ Len(gm_A) >= gm_k
  /\ Len(gm_B) >= gm_k
  /\ \E i \in 1..gm_k : gm_A[Len(gm_A) - gm_k + i] # gm_B[i]

\* C11: generalized_matmul(A, B, k) fails whenever k exceeds the rank of A
\* or of B, and also whenever A.shape[-k:] differs from B.shape[:k] at some
\* position; in neither case does it return a tensor.
MatmulRejectsMismatch ==
  (pc = "gm_done" /\ (gm_k > Len(gm_A) \/ gm_k > Len(gm_B) \/ ContractedDiffer)) =>
    IsError(gm_out)

\* An axis that is a copy of another: a distinct variable object of the same
\* name, ranging over the same extent.
IsCloneOf(c, iv) ==
  /\ c.dom = iv.dom
  /\ c.var.name = iv.var.name
  /\ c.var.type = iv.var.type
  /\ ~SameVar(c.var, iv.var)

\* C12: whenever Jacobian(output, input, optimize) of a ComputeOp output
\* returns, the tensor has shape output.shape ++ input.shape and dtype
\* output.dtype, and its operation has rank(output) + rank(input) axes:
\* copies of the output operation's axes in their order, then fresh axes
\* jac_i0, jac_i1, ... ranging over [0, input.shape[i]).
JacobianShapeLaw ==
  (pc = "jac_done" /\ j_output.op = "compute" /\ ~IsError(j_out)) =>
    LET n == Len(j_output.shape)
        m == Len(j_input.shape)
    IN  /\ j_out.shape = j_output.shape \o j_input.shape
        /\ j_out.dtype = j_output.dtype
        /\ Len(j_out.axis) = n + m
        /\ \A i \in 1..n : IsCloneOf(j_out.axis[i], j_output.axis[i])
        /\ \A i \in 1..m :
             /\ j_out.axis[n + i].var.name = "jac_i" \o ToString(i - 1)
             /\ j_out.axis[n + i].dom = j_input.shape[i]
             /\ \A j \in 1..n : ~SameVar(j_out.axis[n + i].var, j_output.axis[j].var)

\* C12 witness: the Jacobian of a matrix-shaped output with unequal extents
\* with respect to a vector of another dtype was returned without the
\* optimizing pass.
JacobianShapeLawWitness ==
  /\ pc = "jac_done"
  /\ j_output.op = "compute"
  /\ ~IsError(j_out)
  /\ ~j_optimize
  /\ Len(j_output.shape) = 2 /\ j_output.shape[1] # j_output.shape[2]
  /\ Len(j_input.shape) = 1 /\ j_input.shape[1] # j_output.shape[2]
  /\ j_input.dtype # j_output.dtype
  /\ j_out.body[1].kind = "Cast"

\* C13: Jacobian(output, input, optimize) fails whenever output's operation
\* is not a ComputeOp, whatever the input and the value of optimize.
JacobianNeedsCompute ==
  (pc = "jac_done" /\ j_output.op # "compute") => IsError(j_out)

\* C13 witness: the Jacobian of a placeholder was asked for with the
\* optimizing pass and the call failed.
JacobianNeedsComputeWitness ==
  /\ pc = "jac_done"
  /\ j_output.op = "placeholder"
  /\ j_optimize
  /\ Len(j_input.shape) = 2
  /\ IsError(j_out)

\* C14: whenever the differentiator returns a derivative of e, with respect
\* to a variable or to a tensor element, the derivative has the type of e;
\* this holds for every node kind that has a rule.
TypePreservation ==
  (pc = "diff_done" /\ ~IsErr(d_out)) => d_out.type = d_expr.type

\* C14 witness: an expression cast from float32 to float64 whose operand
\* depends on what it is differentiated by was differentiated.
TypePreservationWitness ==
  /\ pc = "diff_done"
  /\ d_expr.kind = "Cast"
  /\ d_expr.type = "float64"
  /\ d_expr.args[1].kind = "Mul"
  /\ d_expr.args[1].type = "float32"
  /\ d_wrt = WrtVar(x_var)
  /\ x_var \in Range(d_expr.args[1].args)
  /\ ~IsErr(d_out)
  /\ d_out.kind = "Cast"

\* An expression whose value is zero whatever its variables are.
RECURSIVE ZeroValued(_)
ZeroValued(e) ==
  CASE e.kind \in {"IntImm", "UIntImm", "FloatImm"} -> e.value = 0
    [] e.kind \in {"Add", "Sub"} -> ZeroValued(e.args[1]) /\ ZeroValued(e.args[2])
    [] e.kind = "Mul" -> ZeroValued(e.args[1]) \/ ZeroValued(e.args[2])
    [] e.kind = "Div" -> ZeroValued(e.args[1])
    [] e.kind = "Select" -> ZeroValued(e.args[2]) /\ ZeroValued(e.args[3])
    [] e.kind = "Cast" -> ZeroValued(e.args[1])
    [] e.kind = "Reduce" -> TRUE
    [] OTHER -> FALSE

\* C15: whenever the differentiator returns a derivative of an expression
\* of integer or boolean type, the derivative is a zero of that type; this
\* includes an integer variable differentiated with respect to itself.
IntegerDerivativeIsZero ==
  (pc = "diff_done" /\ d_expr.type \in {"int32", "bool"} /\ ~IsErr(d_out)) =>
    /\ d_out.type = d_expr.type
    /\ ZeroValued(d_out)

\* The message of NOT_IMPLEMENTED and that of an unknown intrinsic.
IsNotImplemented(e) ==
  IsErr(e) /\ e.name = "Derivative of this op is not implemented"

\* The operands of e that the rule of e differentiates.
Differentiated(e) ==
  CASE e.kind \in {"Add", "Sub", "Mul", "Div", "Min", "Max"} -> <<e.args[1], e.args[2]>>
    [] e.kind = "Select" -> <<e.args[2], e.args[3]>>
    [] e.kind = "Cast" /\ e.type \in {"float32", "float64"} -> <<e.args[1]>>
    [] e.kind = "Call" /\ e.call_type = "PureIntrinsic"
         /\ e.name \in {"exp", "log", "sigmoid", "tanh", "fabs"} -> <<e.args[1]>>
    [] OTHER -> <<>>

\* C16: the differentiator fails on a Load, Let, Mod, Not, Ramp, Broadcast,
\* StringImm, Shuffle, EQ, NE, LT, LE, GT, GE, And or Or node, on a
\* PureIntrinsic call whose name is none of exp, log, sigmoid, tanh, fabs
\* (with a message naming the intrinsic), and on a call that is neither a
\* Halide nor a PureIntrinsic call; and it fails whenever differentiating an
\* operand it differentiates fails.
UnsupportedFails ==
  pc = "diff_done" =>
    /\ d_expr.kind \in {"Load", "Let", "Mod", "Not", "Ramp", "Broadcast", "StringImm",
                        "Shuffle", "EQ", "NE", "LT", "LE", "GT", "GE", "And", "Or"}
         => IsNotImplemented(d_out)
    /\ (d_expr.kind = "Call" /\ d_expr.call_type = "PureIntrinsic"
          /\ d_expr.name \notin {"exp", "log", "sigmoid", "tanh", "fabs"})
         => /\ IsErr(d_out)
            /\ d_out.name = "Derivative of this intrinsic is not implemented: "
                              \o d_expr.name
    /\ (d_expr.kind = "Call" /\ d_expr.call_type \notin {"Halide", "PureIntrinsic"})
         => IsNotImplemented(d_out)
    /\ \A i \in DOMAIN Differentiated(d_expr) :
         IsErr(Mutate(Differentiated(d_expr)[i], d_wrt)) => IsErr(d_out)

\* C16 witness: a product whose first factor is the tanh of a Load was
\* differentiated, and the call failed.
UnsupportedFailsWitness ==
  /\ pc = "diff_done"
  /\ d_expr.kind = "Mul"
  /\ d_expr.args[1].kind = "Call"
  /\ d_expr.args[1].name = "tanh"
  /\ d_expr.args[1].args[1].kind = "Load"
  /\ ~IsErr(Mutate(d_expr.args[2], d_wrt))
  /\ IsNotImplemented(d_out)

\* The conjuncts of a condition, the constant true left out.
RECURSIVE Conjuncts(_)
Conjuncts(c) ==
  IF c.kind = "And" THEN Conjuncts(c.args[1]) \o Conjuncts(c.args[2])
  ELSE IF c.kind = "UIntImm" /\ c.value = 1 THEN <<>>
  ELSE <<c>>

\* C19: the derivative of a Halide call T(args) with respect to
\* input[indices] is cast(type of the call, indices[0] == args[0] AND ... AND
\* indices[n-1] == args[n-1]), n the rank of input, exactly when the call's
\* operation is input's and its output index is input's; otherwise, and with
\* respect to a variable, it is the zero of the call's type. The args are
\* not differentiated.
TensorAccessRule ==
  (pc = "diff_done" /\ d_expr.kind = "Call" /\ d_expr.call_type = "Halide") =>
    IF /\ d_wrt.input # <<>>
       /\ d_expr.func = d_wrt.input[1].id
       /\ d_expr.value_index = d_wrt.input[1].value_index
    THEN /\ d_out.kind = "Cast"
         /\ d_out.type = d_expr.type
         /\ Conjuncts(d_out.args[1]) =
              [i \in 1..Len(d_wrt.input[1].shape) |->
                 Node("EQ", "bool", <<d_wrt.indices[i], d_expr.args[i]>>)]
    ELSE /\ d_out.kind \in {"IntImm", "UIntImm", "FloatImm"}
         /\ d_out.value = 0
         /\ d_out.type = d_expr.type

\* C19 witness: an element of the matrix M was differentiated with respect to
\* an element of M.
TensorAccessRuleWitness ==
  /\ pc = "diff_done"
  /\ d_expr = Access(T_M, <<k_var, i_var>>)
  /\ d_wrt = WrtTensor(T_M, JacIndices(T_M))
  /\ d_out.kind = "Cast"

\* C17: every part DiffBuildingBlock(consumer, producer, head) returned is
\* the result of these steps in this order, each taken once: J =
\* Jacobian(consumer, producer) with the optimizing pass; generalized_matmul
\* (head, J, rank(consumer)) named consumer.producer.grad;
\* InlineNonReductions restricted to J alone;
\* OptimizeAndLiftNonzeronessConditions; InlineTailCall.
BuildingBlockOrder ==
  Collected =>
    \A T \in DOMAIN summands : \A C \in DOMAIN summands[T] :
      LET part == summands[T][C]
          J == part.operands[2]
      IN  /\ part.op \in {"mul", "sum_mul"}
          /\ Len(part.operands) = 2
          /\ J.op = "jacobian" /\ J.consumer = C /\ J.producer = T
          /\ J.passes = <<"OptimizeAndLiftNonzeronessConditions">>
          /\ part.operands[1] = adjoints[C]
          /\ part.axes = shape[C]
          /\ part.name = <<ToString(C), ".", ToString(T), ".grad">>
          /\ part.inlined = {J}
          /\ part.passes = <<"InlineNonReductions",
                             "OptimizeAndLiftNonzeronessConditions", "InlineTailCall">>

\* C17 witness: the call returned after building the part of a consumer of
\* rank two that is not the output.
BuildingBlockOrderWitness ==
  /\ pc = "done"
  /\ \E T \in DOMAIN summands : \E C \in DOMAIN summands[T] :
       C # output /\ Rank(C) = 2 /\ Rank(T) = 1

\* The value of an expression of index variables: comparisons and
\* conjunctions are 1 or 0 and a cast keeps the value.
RECURSIVE Eval(_, _)
Eval(e, env) ==
  CASE e.kind = "Variable" -> env[e.name]
    [] e.kind \in {"IntImm", "UIntImm", "FloatImm"} -> e.value
    [] e.kind = "EQ" -> IF Eval(e.args[1], env) = Eval(e.args[2], env) THEN 1 ELSE 0
    [] e.kind = "And" ->
         IF Eval(e.args[1], env) = 1 /\ Eval(e.args[2], env) = 1 THEN 1 ELSE 0
    [] e.kind = "Cast" -> Eval(e.args[1], env)

\* The element of a computed tensor at an index tuple (counted from 0).
ElementAt(t, idx) ==
  Eval(t.body[t.value_index + 1],
       [v \in {t.axis[i].var.name : i \in DOMAIN t.axis} |->
          idx[CHOOSE i \in DOMAIN t.axis : t.axis[i].var.name = v]])

\* The index tuples of a shape.
IndicesOf(shp) ==
  {idx \in [DOMAIN shp -> 0..2] : \A i \in DOMAIN shp : idx[i] < shp[i]}

\* C18: with a null head the head used has shape output.shape ++
\* output.shape and dtype output.dtype, and its element at (i..., j...) is 1
\* when i_m = j_m for every m and 0 otherwise (the scalar 1 for an output of
\* rank 0); a head that is given is used as it is.
DefaultHead ==
  (InCall /\ ~IsNull(head)) =>
    IF IsNull(head_or_null)
    THEN LET n == Rank(output)
         IN  /\ head.shape = shape[output] \o shape[output]
             /\ head.dtype = DType(output)
             /\ \A idx \in IndicesOf(head.shape) :
                  ElementAt(head, idx) =
                    IF \A m \in 1..n : idx[m] = idx[n + m] THEN 1 ELSE 0
    ELSE head = head_or_null

\* C18 witness: a call without a head on an output of rank two returned.
DefaultHeadWitness ==
  /\ pc = "done"
  /\ IsNull(head_or_null)
  /\ Rank(output) = 2
  /\ shape[output][1] # shape[output][2]
  /\ head.op = "identity"

\* The n tensors added up in a sum nested to the left.
RECURSIVE IsChain(_, _)
IsChain(a, n) ==
  IF n <= 1 THEN a.op # "add"
  ELSE a.op = "add" /\ Len(a.operands) = 2 /\ IsChain(a.operands[1], n - 1)

RECURSIVE Summed(_, _)
Summed(a, n) ==
  IF n <= 1 THEN <<a>> ELSE Append(Summed(a.operands[1], n - 1), a.operands[2])

\* adjoints[T] is the chain of the parts of T's consumers in their order.
IsChainOfParts(T) ==
  LET deps == Consumers(T)
      n == Len(deps)
      p == Summed(adjoints[T], n)
  IN  /\ IsChain(adjoints[T], n)
      /\ \A i \in 1..n :
           /\ deps[i] \in DOMAIN adjoints
           /\ [p[i] EXCEPT !.id = 0] = fdiff(deps[i], T, adjoints[deps[i]])
      /\ \A i, j \in 1..n : i # j => p[i].id # p[j].id

ConsumerlessHasEmptySummands ==
  pc = "done" =>
    \A T \in Range(inputs) :
      (T # output /\ Consumers(T) = <<>>) =>
        /\ T \in DOMAIN returned[1].adjoint_summands
        /\ DOMAIN returned[1].adjoint_summands[T] = {}

\* The reduction a Reduce was differentiated as, and both combiners.
IsReduceDone == pc = "diff_done" /\ d_expr.kind = "Reduce" /\ ~IsErr(d_out)
Arity == Len(d_expr.combiner[1].lhs)

\* v is a variable object of its own that carries the name of u followed by
\* suffix, and u's type.
IsCopyOf(v, u, suffix) ==
  /\ v.kind = "Variable"
  /\ v.name = u.name \o suffix
  /\ v.type = u.type
  /\ ~SameVar(v, u)

\* The expression e of the differentiated Reduce as the cloned reduction
\* reads it: every reduction axis replaced by its clone in d_out.
Cloned(e) ==
  Substitute(e, [i \in DOMAIN d_expr.axis |-> <<d_expr.axis[i].var, d_out.axis[i].var>>])

\* The derivative of e with respect to what the Reduce is differentiated by.
DOf(e) == Mutate(e, d_wrt)

\* C22: the derivative of a Reduce with a combiner of arity k is a Reduce
\* over clones of the axes and the condition of the cloned reduction; lhs,
\* rhs, result, identity and source all have length 2k, the derivative
\* components in positions 0..k-1 (".der" copies of the variables, the
\* derivatives of the identities and of the sources) and the components of
\* the cloned reduction in positions k..2k-1; value_index is unchanged.
PairedLayout ==
  IsReduceDone =>
    LET k == Arity
        c == d_expr.combiner[1]
        n == d_out.combiner[1]
    IN  /\ d_out.kind = "Reduce"
        /\ Len(d_out.combiner) = 1
        /\ Len(n.lhs) = 2 * k /\ Len(n.rhs) = 2 * k /\ Len(n.result) = 2 * k
        /\ Len(n.identity_element) = 2 * k /\ Len(d_out.args) = 2 * k
        /\ Len(d_out.axis) = Len(d_expr.axis)
        /\ \A i \in DOMAIN d_expr.axis :
             /\ d_out.axis[i].dom = d_expr.axis[i].dom
             /\ IsCopyOf(d_out.axis[i].var, d_expr.axis[i].var, "")
        /\ d_out.condition = <<Cloned(d_expr.condition[1])>>
        /\ d_out.value_index = d_expr.value_index
        /\ \A i \in 1..k :
             /\ IsCopyOf(n.lhs[i], c.lhs[i], ".der")
             /\ IsCopyOf(n.rhs[i], c.rhs[i], ".der")
             /\ n.lhs[k + i] = c.lhs[i]
             /\ n.rhs[k + i] = c.rhs[i]
             /\ n.result[k + i] = c.result[i]
             /\ n.identity_element[i] = DOf(c.identity_element[i])
             /\ n.identity_element[k + i] = c.identity_element[i]
             /\ d_out.args[i] = DOf(Cloned(d_expr.args[i]))
             /\ d_out.args[k + i] = Cloned(d_expr.args[i])

\* C22 witness: a reduction with a combiner of two components, whose first
\* source reads a tensor at the reduction axis, has been differentiated with
\* respect to that tensor, under the second value_index.
PairedLayoutWitness ==
  /\ IsReduceDone
  /\ Arity = 2
  /\ d_expr.value_index = 1
  /\ d_wrt.input = <<T_M>>
  /\ d_expr.args[1] = Access(T_M, <<k_var, i_var>>)
  /\ d_out.args[1] # d_out.args[3]
  /\ d_out.args[3] # d_expr.args[1]

\* e is zero + terms[1] + ... + terms[n], the additions nested to the left.
RECURSIVE IsLeftSum(_, _, _)
IsLeftSum(e, zero, terms) ==
  IF terms = <<>> THEN e = zero
  ELSE /\ e.kind = "Add"
       /\ Len(e.args) = 2
       /\ e.args[2] = terms[Len(terms)]
       /\ IsLeftSum(e.args[1], zero, Prefix(terms, Len(terms) - 1))

\* e or one of its operands, at any depth, is a node of the given kind.
RECURSIVE HasKind(_, _)
HasKind(e, kind) ==
  e.kind = kind \/ \E i \in DOMAIN e.args : HasKind(e.args[i], kind)

\* The product var_der * d(res)/d(var) of the paired combiner.
DerTerm(var_der, res, var) ==
  Node("Mul", var_der.type, <<var_der, Derivative(res, var)>>)

\* C23: every derivative component result'_i (i < k) of the paired combiner
\* is the sum, from the zero of result_i's type, of lhs'_j * d(result_i)/d(lhs_j)
\* for j = 0..k-1 and then rhs'_j * d(result_i)/d(rhs_j) for j = 0..k-1, lhs'_j
\* and rhs'_j being the ".der" variables; the inner derivatives are taken with
\* respect to the combiner variable alone, so a tensor access inside result_i
\* contributes a zero and never the cast of an index comparison.
PairedResult ==
  IsReduceDone =>
    LET k == Arity
        c == d_expr.combiner[1]
        n == d_out.combiner[1]
    IN  \A i \in 1..k :
          /\ IsLeftSum(n.result[i], MakeZero(c.result[i].type),
                       [j \in 1..k |-> DerTerm(n.lhs[j], c.result[i], c.lhs[j])]
                       \o [j \in 1..k |-> DerTerm(n.rhs[j], c.result[i], c.rhs[j])])
          /\ \A j \in 1..k : IsCopyOf(n.lhs[j], c.lhs[j], ".der")
                             /\ IsCopyOf(n.rhs[j], c.rhs[j], ".der")
          /\ ~HasKind(c.result[i], "Cast") => ~HasKind(n.result[i], "Cast")

\* C23 witness: a reduction whose combiner result reads the tensor S has been
\* differentiated with respect to S.
PairedResultWitness ==
  /\ IsReduceDone
  /\ d_wrt.input = <<T_S>>
  /\ HasKind(d_expr.combiner[1].result[1], "Call")
  /\ d_out.combiner[1].result[1].kind = "Add"

\* The simplified derivative of the body of j_output, over the axes of j_out.
DerivativeBody ==
  Simplify(JacobianExpr(
    Substitute(j_output.body[j_output.value_index + 1],
               [i \in DOMAIN j_output.axis |-> <<j_output.axis[i].var, j_out.axis[i].var>>]),
    j_input,
    [i \in DOMAIN j_input.shape |-> j_out.axis[Len(j_output.axis) + i].var]))

\* C24: when the simplified derivative body is a Reduce with k sources, the
\* op of the Jacobian has exactly k bodies, body i being that Reduce (same
\* combiner, sources, axes and condition) with value_index i, for
\* i = 0..k-1, and the value_index of the Jacobian tensor is that of the
\* reduction and is less than k; otherwise the op has exactly one body, the
\* derivative, and the value_index of the tensor is 0.
JacobianBodies ==
  (pc = "jac_done" /\ ~IsError(j_out)) =>
    LET red == DerivativeBody
        k == Len(red.args)
    IN  IF red.kind = "Reduce"
        THEN /\ Len(j_out.body) = k
             /\ \A i \in 1..k :
                  /\ j_out.body[i].kind = "Reduce"
                  /\ j_out.body[i].value_index = i - 1
                  /\ j_out.body[i].combiner = red.combiner
                  /\ j_out.body[i].args = red.args
                  /\ j_out.body[i].axis = red.axis
                  /\ j_out.body[i].condition = red.condition
             /\ j_out.value_index = red.value_index
             /\ j_out.value_index < k
        ELSE /\ j_out.body = <<red>>
             /\ j_out.value_index = 0

\* C24 witness: the Jacobian of the second output of a reduction with a
\* combiner of two components has four bodies and value_index 1.
JacobianBodiesWitness ==
  /\ pc = "jac_done"
  /\ ~IsError(j_out)
  /\ j_output.value_index = 1
  /\ DerivativeBody.kind = "Reduce"
  /\ Len(j_out.body) = 4
  /\ j_out.value_index = 1

\* The variables of a sequence of axes.
VarsOf(axis) == [i \in DOMAIN axis |-> axis[i].var]

\* e reads the element of the operand with the given id at the indices.
ReadsAt(e, id, indices) ==
  /\ e.kind = "Call"
  /\ e.call_type = "Halide"
  /\ e.func = id
  /\ e.args = indices

\* C25: the body of generalized_matmul(A, B, k) at the output indices
\* (i..., j...), |i| = rank(A) - k, is the product A[i..., r...] * B[r..., j...]
\* summed over exactly k reduction axes r_m that range over [0, B.shape[m]);
\* for k = 0 it is the plain product A[i...] * B[j...] and holds no Reduce.
MatmulBody ==
  (pc = "gm_done" /\ ~IsError(gm_out)) =>
    LET body == gm_out.body[1]
        na == Len(gm_A) - gm_k
        out_vars == VarsOf(gm_out.axis)
        r == IF gm_k = 0 THEN <<>> ELSE VarsOf(body.axis)
        product == IF gm_k = 0 THEN body ELSE body.args[1]
    IN  /\ Len(gm_out.body) = 1
        /\ Len(out_vars) = Len(gm_out.shape)
        /\ NoRepeats(out_vars \o r)
        /\ gm_k = 0 => ~HasKind(body, "Reduce")
        /\ gm_k > 0 =>
             /\ body.kind = "Reduce"
             /\ Len(body.args) = 1
             /\ body.value_index = 0
             /\ body.condition = <<TrueImm>>
             /\ Len(body.axis) = gm_k
             /\ \A m \in 1..gm_k : body.axis[m].dom = gm_B[m]
             /\ LET c == body.combiner[1]
                IN  /\ Len(c.lhs) = 1 /\ Len(c.rhs) = 1
                    /\ c.result = <<Node("Add", product.type, <<c.lhs[1], c.rhs[1]>>)>>
                    /\ c.identity_element = <<MakeZero(product.type)>>
        /\ product.kind = "Mul"
        /\ ReadsAt(product.args[1], 1, Prefix(out_vars, na) \o r)
        /\ ReadsAt(product.args[2], 2, r \o Drop(out_vars, na))

\* C25 witness: two matrices were contracted over one axis.
MatmulBodyWitness ==
  /\ pc = "gm_done"
  /\ ~IsError(gm_out)
  /\ gm_k = 1
  /\ Len(gm_A) = 2
  /\ Len(gm_B) = 2
  /\ gm_out.body[1].kind = "Reduce"

\* The condition the rule of a Select, Min or Max copies into its result.
ConditionOf(e) ==
  CASE e.kind = "Select" -> e.args[1]
    [] e.kind = "Min" -> Node("LE", "bool", <<e.args[1], e.args[2]>>)
    [] e.kind = "Max" -> Node("GE", "bool", <<e.args[1], e.args[2]>>)

\* C26: the derivative of Select(c, t, f), Min(a, b) or Max(a, b) is the
\* Select of the unchanged condition (c, a <= b, a >= b) between the
\* derivatives of the two values whenever both of these succeed, whatever
\* nodes the condition is made of, and the differentiation fails only when
\* that of a value fails.
ConditionsAreOpaque ==
  (pc = "diff_done" /\ d_expr.kind \in {"Select", "Min", "Max"}) =>
    LET values == Differentiated(d_expr)
        dt == Mutate(values[1], d_wrt)
        df == Mutate(values[2], d_wrt)
    IN  IF IsErr(dt) \/ IsErr(df)
        THEN IsErr(d_out)
        ELSE /\ ~IsErr(d_out)
             /\ d_out.kind = "Select"
             /\ d_out.args = <<ConditionOf(d_expr), dt, df>>

\* C26 witness: a Select under a condition made of a comparison and a
\* remainder, between values that depend on the tensor, was differentiated.
ConditionsAreOpaqueWitness ==
  /\ pc = "diff_done"
  /\ d_expr.kind = "Select"
  /\ d_expr.args[1].kind = "LT"
  /\ d_expr.args[1].args[1].kind = "Mod"
  /\ IsErr(Mutate(d_expr.args[1], d_wrt))
  /\ d_expr.args[2].kind = "Mul"
  /\ d_wrt.input = <<T_A>>
  /\ ~IsErr(d_out)
  /\ d_out.args[1] = d_expr.args[1]

\* The reachable tensors that read T.
ReadersOf(T) == {C \in Reachable(subtensors) : T \in ReadBy(C)}

Max(S) == CHOOSE x \in S : \A y \in S : y <= x

\* The number of tensors on the longest chain T, a reader of T, a reader of
\* that reader, ... up to output (1 for output and for an unread tensor).
RECURSIVE LongestChain(_)
LongestChain(T) ==
  IF T = output \/ ReadersOf(T) = {} THEN 1
  ELSE 1 + Max({LongestChain(C) : C \in ReadersOf(T)})

\* The call has returned or has thrown.
Finished == pc \in {"done", "failed"}

\* The compute_adjoint calls in progress are no more than the tensors on
\* the longest chain from the tensor of the outermost call up to output.
DepthBounded ==
  frames # <<>> => Len(frames) <= LongestChain(frames[1].tensor)

\* C27: a Differentiate call on an acyclic graph with a terminating fdiff
\* terminates: the traversal empties its stack, every compute_adjoint call
\* returns, and the depth of the recursion never exceeds the number of
\* tensors on the longest consumer chain from the requested tensor to output.
Terminates ==
  /\ []DepthBounded
  /\ <>(pc # "start" /\ pc # "collect" /\ stack = <<>>)
  /\ <>(Finished /\ frames = <<>>)

\* C27 witness: three compute_adjoint calls are in progress, for a tensor,
\* a reader of it and a reader of that reader.
TerminatesWitness ==
  /\ Len(frames) = 3
  /\ LongestChain(frames[1].tensor) = 3
  /\ frames[2].tensor \in ReadersOf(frames[1].tensor)
  /\ frames[3].tensor \in ReadersOf(frames[2].tensor)

\* How many times x occurs in the sequence s.
Occurrences(s, x) == Cardinality({i \in DOMAIN s : s[i] = x})

\* How many times fdiff has been invoked for consumer C and producer T.
Invocations(C, T) ==
  Cardinality({n \in DOMAIN fdiff_calls :
                 fdiff_calls[n].consumer = C /\ fdiff_calls[n].producer = T})

\* Every fdiff invocation was for a recorded consumer C of a producer T, a
\* ComputeOp tensor that reads T, T not being output, and its third argument
\* was the adjoint of C, stored before the invocation.
InvocationsAreSound ==
  \A n \in DOMAIN fdiff_calls :
    LET C == fdiff_calls[n].consumer
        T == fdiff_calls[n].producer
    IN  /\ C \in Range(Consumers(T))
        /\ is_compute[C]
        /\ T \in ReadBy(C)
        /\ T # output
        /\ C \in DOMAIN adjoints
        /\ adjoints[C] = fdiff_calls[n].head

\* An adjoint, once stored, is neither removed nor replaced.
AdjointsAreFinal ==
  \A T \in DOMAIN adjoints : T \in DOMAIN adjoints' /\ adjoints'[T] = adjoints[T]

RECURSIVE WithReaders(_, _)
WithReaders(S, n) ==
  IF n = 0 THEN S
  ELSE WithReaders(S \cup UNION {ReadersOf(T) : T \in S}, n - 1)

\* The tensors on a consumer path from a requested input up to output.
OnPathFromInputs == WithReaders(Range(inputs), NumTensors)

\* The tensors the returned adjoints map is expected to hold.
ExpectedDomain ==
  IF inputs = <<>> THEN Reachable(subtensors)
  ELSE {output} \cup OnPathFromInputs

\* C29: the keys of the returned adjoints map are output and every tensor
\* output transitively reads when inputs is empty, and otherwise output, the
\* requested inputs and the tensors on a consumer path from a requested input
\* to output; any other tensor output reads has no adjoint and is neither
\* producer nor consumer of an fdiff invocation.
AdjointsDomain ==
  pc = "done" =>
    /\ DOMAIN returned[1].adjoints = ExpectedDomain
    /\ inputs = <<>> =>
         DOMAIN returned[1].adjoints = {output} \cup DOMAIN reverse_dependencies
    /\ \A n \in DOMAIN fdiff_calls :
         /\ fdiff_calls[n].producer \in ExpectedDomain
         /\ fdiff_calls[n].consumer \in ExpectedDomain

\* C29 witness: a call with inputs returned adjoints for a tensor that was
\* not requested but reads a requested one, and none for another tensor that
\* output reads.
AdjointsDomainWitness ==
  /\ pc = "done"
  /\ inputs # <<>>
  /\ \E T \in DOMAIN returned[1].adjoints : T # output /\ T \notin Range(inputs)
  /\ \E U \in Reachable(subtensors) : U \notin DOMAIN returned[1].adjoints
  /\ fdiff_calls # <<>>

\* Every compute_adjoint call in progress is on a key of
\* reverse_dependencies or on output, whose adjoint is stored.
LooksUpKeysOnly ==
  \A i \in DOMAIN frames :
    \/ frames[i].tensor \in DOMAIN reverse_dependencies
    \/ frames[i].tensor = output /\ output \in DOMAIN adjoints

\* A step that adds a key to reverse_dependencies after the traversal adds
\* one key, with no consumers, for a requested input output does not read,
\* and is made by the loop over inputs.
InsertsOnlyUnreadInputs ==
  (pc \in {"all", "inputs"} /\ DOMAIN reverse_dependencies' # DOMAIN reverse_dependencies) =>
    /\ pc = "inputs"
    /\ \E T \in Range(inputs) \ Reachable(subtensors) :
         /\ DOMAIN reverse_dependencies' = DOMAIN reverse_dependencies \cup {T}
         /\ reverse_dependencies'[T] = <<>>
         /\ \A K \in DOMAIN reverse_dependencies :
              reverse_dependencies'[K] = reverse_dependencies[K]

\* C30: while Differentiate iterates over reverse_dependencies (inputs
\* empty) no key is inserted into it: every compute_adjoint call of the
\* loop, the recursive ones included, is on a key of the map or on output,
\* whose adjoint is memoized; compute_adjoint inserts a key only for a
\* requested input that is not reachable from output.
NoInsertWhileIterating ==
  /\ [](pc = "all" => LooksUpKeysOnly)
  /\ [][pc = "all" => DOMAIN reverse_dependencies' = DOMAIN reverse_dependencies]_vars
  /\ [][InsertsOnlyUnreadInputs]_vars

\* C30 witness: during the loop over reverse_dependencies a recursive
\* compute_adjoint call has reached output.
NoInsertWhileIteratingWitness ==
  /\ pc = "all"
  /\ Len(frames) >= 3
  /\ Top.tensor = output
  /\ Top.at = "entry"
  /\ output \notin DOMAIN reverse_dependencies

====
